---- MODULE Spec2Model ----
(***************************************************************************)
(* A model of the MonarchMoney MCP server: the tool catalog built from the *)
(* external client (src/src/tools.ts, src/src/createServer.ts), the        *)
(* authentication gate and the request dispatcher (src/src/index.ts,       *)
(* src/src/createServer.ts) and the handlers of the catalog.               *)
(*                                                                         *)
(* Strings of the program (operation names, tool names, error messages,    *)
(* result texts) are sequences of tokens; concatenation is \o and          *)
(* String.prototype.includes is a search for a contiguous run of tokens.   *)
(* JavaScript values are tagged records [t |-> type, v |-> payload].       *)
(***************************************************************************)
EXTENDS Integers, Sequences, FiniteSets, TLC

VARIABLES
  variant,          \* which entry point built the server: index.ts or createServer.ts
  config,           \* the credentials the configuration collaborator supplies
  cachedConfig,     \* config.ts: the parsed configuration kept by getEnvConfig
  client,           \* the external client object (groups, operations)
  toolDefinitions,  \* the catalog, in registration order
  isAuthenticated,  \* the flag of the authentication gate
  logins,           \* the outcome of each call of monarchClient.login, in call order
  started,          \* how many invocations have been started
  inv,              \* the invocations in flight, one per handler slot
  trial             \* one application of the pure functions: its inputs, its results

vars == <<variant, config, cachedConfig, client, toolDefinitions,
          isAuthenticated, logins, started, inv, trial>>

-----------------------------------------------------------------------------
(* Bounds of the model *)

\* handler invocations that can be in flight at once
NumHandlers == 2
\* invocations started in one behaviour
MaxInvocations == 2

Handlers == 1..NumHandlers

-----------------------------------------------------------------------------
(* Strings as token sequences *)

StartsWith(s, p) == Len(p) <= Len(s) /\ SubSeq(s, 1, Len(p)) = p

Includes(s, p) == \E i \in 0..(Len(s) - Len(p)) : SubSeq(s, i + 1, i + Len(p)) = p

\* String.prototype.toLowerCase on the tokens the model uses
LowerToken(tok) ==
  CASE tok = "MFA" -> "mfa"
    [] tok = "TOTP" -> "totp"
    [] tok = "Network" -> "network"
    [] tok = "Timeout" -> "timeout"
    [] tok = "Amazon" -> "amazon"
    [] tok = "Last" -> "last"
    [] tok = "Over" -> "over"
    [] tok = "Under" -> "under"
    [] tok = "Largest" -> "largest"
    [] tok = "Forbidden" -> "forbidden"
    [] tok = "FORBIDDEN" -> "forbidden"
    [] tok = "Above" -> "above"
    [] tok = "Below" -> "below"
    [] tok = "Starbucks" -> "starbucks"
    [] OTHER -> tok

ToLowerCase(s) == [i \in 1..Len(s) |-> LowerToken(s[i])]

-----------------------------------------------------------------------------
(* JavaScript values *)

Undefined == [t |-> "undefined"]
Str(s) == [t |-> "string", v |-> s]
Num(n) == [t |-> "number", v |-> n]
Obj(r) == [t |-> "object", v |-> r]
Arr(a) == [t |-> "array", v |-> a]

EmptyRecord == [f \in {} |-> Undefined]

\* args.field : undefined when the record has no such field
Get(r, f) == IF f \in DOMAIN r THEN r[f] ELSE Undefined

\* { ...a, ...b }
Merge(a, b) == [f \in DOMAIN a \cup DOMAIN b |-> IF f \in DOMAIN b THEN b[f] ELSE a[f]]

\* JavaScript truthiness of the values the model uses
Truthy(x) ==
  CASE x.t = "undefined" -> FALSE
    [] x.t = "null" -> FALSE
    [] x.t = "string" -> x.v # <<>>
    [] x.t = "number" -> x.v # 0
    [] x.t = "boolean" -> x.v
    [] OTHER -> TRUE

-----------------------------------------------------------------------------
(* Input schemas (zod objects): an ordered list of fields *)

Field(name, type, required, default) ==
  [name |-> name, type |-> type, required |-> required, default |-> default]

VerbosityField == Field("verbosity", "verbosity", FALSE, Str(<<"summary">>))

Verbosities == {<<"brief">>, <<"summary">>, <<"detailed">>}

Periods == {<<"week">>, <<"month">>, <<"quarter">>}

\* what a zod field type accepts
TypeAccepts(type, x) ==
  CASE type = "string" -> x.t = "string"
    [] type = "number" -> x.t = "number"
    [] type = "positiveInt" -> x.t = "number" /\ x.v > 0
    [] type = "nonnegativeInt" -> x.t = "number" /\ x.v >= 0
    [] type = "boolean" -> x.t = "boolean"
    [] type = "verbosity" -> x.t = "string" /\ x.v \in Verbosities
    [] type = "period" -> x.t = "string" /\ x.v \in Periods
    [] type = "record" -> x.t = "object"
    [] type = "stringArray" ->
         x.t = "array" /\ \A i \in 1..Len(x.v) : x.v[i].t = "string"
    [] type = "amountRange" ->
         /\ x.t = "array"
         /\ Len(x.v) = 2
         /\ x.v[1].t = "number"
         /\ x.v[2].t \in {"number", "null"}

\* the fields of each schema the program builds, by schema kind
SchemaFields(kind) ==
  CASE kind = "ById" -> << Field("id", "string", TRUE, Undefined) >>
    [] kind = "TransactionDetail" -> << Field("transactionId", "string", TRUE, Undefined) >>
    [] kind = "TransactionFilter" ->
         << Field("limit", "positiveInt", FALSE, Num(50)),
            Field("offset", "nonnegativeInt", FALSE, Num(0)),
            Field("startDate", "string", FALSE, Undefined),
            Field("endDate", "string", FALSE, Undefined),
            Field("accountIds", "stringArray", FALSE, Undefined),
            Field("categoryIds", "stringArray", FALSE, Undefined),
            Field("search", "string", FALSE, Undefined),
            Field("absAmountRange", "amountRange", FALSE, Undefined),
            VerbosityField >>
    [] kind = "DateRange" ->
         << Field("startDate", "string", FALSE, Undefined),
            Field("endDate", "string", FALSE, Undefined) >>
    [] kind = "Update" ->
         << Field("id", "string", TRUE, Undefined),
            Field("data", "record", TRUE, Undefined) >>
    [] kind = "Create" -> << Field("data", "record", TRUE, Undefined) >>
    [] kind = "CreateOrUpdate" -> << Field("data", "record", TRUE, Undefined) >>
    [] kind = "AccountList" ->
         << Field("includeHidden", "boolean", FALSE, Undefined), VerbosityField >>
    [] kind = "Verbosity" -> << VerbosityField >>
    [] kind = "Empty" -> << >>
    [] kind = "SmartQuery" ->
         << Field("query", "string", TRUE, Undefined), VerbosityField >>
    [] kind = "SpendingByCategoryMonth" ->
         << Field("month", "string", FALSE, Undefined),
            Field("topN", "number", FALSE, Num(10)) >>
    [] kind = "BalanceTrends" ->
         << Field("period", "period", FALSE, Str(<<"month">>)) >>
    [] kind = "BudgetVariance" -> << Field("month", "string", FALSE, Undefined) >>
    [] kind = "QuickStats" -> << >>

\* schema.parse(raw): the value a field ends with (its default when absent)
FieldValue(fld, rec) ==
  IF Get(rec, fld.name).t = "undefined" THEN fld.default ELSE Get(rec, fld.name)

\* schema.parse(raw): unknown keys are stripped, defaults filled in, and the
\* parse fails on a non-object, a missing required field or a wrong type
SchemaParse(kind, raw) ==
  LET fields == SchemaFields(kind)
      idx == 1..Len(fields)
  IN  IF raw.t # "object"
      THEN [ok |-> FALSE, value |-> EmptyRecord]
      ELSE LET good(i) ==
                 LET x == FieldValue(fields[i], raw.v)
                 IN  IF x.t = "undefined"
                     THEN ~fields[i].required
                     ELSE TypeAccepts(fields[i].type, x)
               present == {i \in idx : FieldValue(fields[i], raw.v).t # "undefined"}
               names == {fields[i].name : i \in present}
               at(n) == CHOOSE i \in present : fields[i].name = n
           IN  IF \A i \in idx : good(i)
               THEN [ok |-> TRUE,
                     value |-> [n \in names |-> FieldValue(fields[at(n)], raw.v)]]
               ELSE [ok |-> FALSE, value |-> EmptyRecord]

\* rawArgs ?? {}
OrEmptyObject(raw) == IF raw.t \in {"undefined", "null"} THEN Obj(EmptyRecord) ELSE raw

-----------------------------------------------------------------------------
(* Schema Deriver *)

\* name.includes("getById"): the first of the two tests alone
IsGetById(name) == Includes(name, <<"get", "ById">>)

\* name.includes("getById") || name.includes("ById")
IsById(name) == Includes(name, <<"get", "ById">>) \/ Includes(name, <<"ById">>)

\* the rules of generateInputSchema with the create rule ahead of the update rule
generateInputSchemaCreateFirst(moduleName, methodName) ==
  IF IsById(methodName)
  THEN "ById"
  ELSE IF moduleName = "transactions" /\ methodName = <<"get", "Transaction", "Details">>
  THEN "TransactionDetail"
  ELSE IF Includes(methodName, <<"Transactions">>) \/ methodName = <<"get", "Transactions">>
  THEN "TransactionFilter"
  ELSE IF Includes(methodName, <<"History">>) \/ Includes(methodName, <<"OverTime">>)
  THEN "DateRange"
  ELSE IF Includes(methodName, <<"create">>)
  THEN "Create"
  ELSE IF Includes(methodName, <<"update">>)
  THEN "Update"
  ELSE IF moduleName = "accounts" /\ methodName = <<"get", "All">>
  THEN "AccountList"
  ELSE IF /\ (Includes(methodName, <<"get", "All">>) \/ StartsWith(methodName, <<"get">>))
          /\ ~Includes(methodName, <<"ById">>)
  THEN "Verbosity"
  ELSE "Empty"

\* tools.ts generateInputSchema: the first rule the operation name satisfies
generateInputSchema(moduleName, methodName) ==
  IF IsById(methodName)
  THEN "ById"
  ELSE IF moduleName = "transactions" /\ methodName = <<"get", "Transaction", "Details">>
  THEN "TransactionDetail"
  ELSE IF Includes(methodName, <<"Transactions">>) \/ methodName = <<"get", "Transactions">>
  THEN "TransactionFilter"
  ELSE IF Includes(methodName, <<"History">>) \/ Includes(methodName, <<"OverTime">>)
  THEN "DateRange"
  ELSE IF Includes(methodName, <<"update">>)
  THEN "Update"
  ELSE IF Includes(methodName, <<"create">>)
  THEN "Create"
  ELSE IF moduleName = "accounts" /\ methodName = <<"get", "All">>
  THEN "AccountList"
  ELSE IF /\ (Includes(methodName, <<"get", "All">>) \/ StartsWith(methodName, <<"get">>))
          /\ ~Includes(methodName, <<"ById">>)
  THEN "Verbosity"
  ELSE "Empty"

\* createServer.ts generateInputSchema: no transaction-detail rule, and one
\* rule for create and update
generateInputSchemaCS(moduleName, methodName) ==
  IF IsById(methodName)
  THEN "ById"
  ELSE IF Includes(methodName, <<"Transactions">>) \/ methodName = <<"get", "Transactions">>
  THEN "TransactionFilter"
  ELSE IF Includes(methodName, <<"History">>) \/ Includes(methodName, <<"OverTime">>)
  THEN "DateRange"
  ELSE IF Includes(methodName, <<"create">>) \/ Includes(methodName, <<"update">>)
  THEN "CreateOrUpdate"
  ELSE IF moduleName = "accounts" /\ methodName = <<"get", "All">>
  THEN "AccountList"
  ELSE IF /\ (Includes(methodName, <<"get", "All">>) \/ StartsWith(methodName, <<"get">>))
          /\ ~Includes(methodName, <<"ById">>)
  THEN "Verbosity"
  ELSE "Empty"

-----------------------------------------------------------------------------
(* Calendar dates, for the default date window of the Argument Adapter *)

IsLeapYear(y) == (y % 4 = 0 /\ y % 100 # 0) \/ y % 400 = 0

DaysInMonth(y, m) ==
  IF m = 2 THEN (IF IsLeapYear(y) THEN 29 ELSE 28)
  ELSE IF m \in {4, 6, 9, 11} THEN 30 ELSE 31

PreviousDay(date) ==
  IF date.d > 1 THEN [date EXCEPT !.d = date.d - 1]
  ELSE IF date.m > 1
       THEN [y |-> date.y, m |-> date.m - 1, d |-> DaysInMonth(date.y, date.m - 1)]
       ELSE [y |-> date.y - 1, m |-> 12, d |-> 31]

RECURSIVE MinusDays(_, _)
\* date.setDate(date.getDate() - n)
MinusDays(date, n) == IF n = 0 THEN date ELSE MinusDays(PreviousDay(date), n - 1)

Pad2(n) == IF n < 10 THEN <<"0", ToString(n)>> ELSE <<ToString(n)>>

\* date.toISOString().split("T")[0]
ToISODate(date) == <<ToString(date.y), "-">> \o Pad2(date.m) \o <<"-">> \o Pad2(date.d)

\* new Date() is an instant: its UTC date (y, m, d), its UTC minute of the
\* day, and the offset of local time, in minutes east of UTC, at the instant
\* (offset) and thirty local days before it (offsetBefore).
\* Today is the system time the test suite pins, read in UTC.
Today == [y |-> 2024, m |-> 2, d |-> 1, minute |-> 0, offset |-> 0, offsetBefore |-> 0]

NextDay(date) ==
  IF date.d < DaysInMonth(date.y, date.m) THEN [date EXCEPT !.d = date.d + 1]
  ELSE IF date.m < 12 THEN [y |-> date.y, m |-> date.m + 1, d |-> 1]
       ELSE [y |-> date.y + 1, m |-> 1, d |-> 1]

\* the date k days from date, for the day a time-zone offset carries over
ShiftDays(date, k) ==
  IF k < 0 THEN PreviousDay(date) ELSE IF k > 0 THEN NextDay(date) ELSE date

\* date.getDate() and its month and year: the calendar date in local time
LocalDate(now) == ShiftDays(now, (now.minute + now.offset) \div 1440)

\* the local time of day, in minutes
LocalMinute(now) == (now.minute + now.offset) % 1440

\* startDate.setDate(startDate.getDate() - 30) moves the local date and keeps
\* the local time of day; toISOString() then reads the date in UTC
ThirtyDaysBefore(now) ==
  ShiftDays(MinusDays(LocalDate(now), 30), (LocalMinute(now) - now.offsetBefore) \div 1440)

-----------------------------------------------------------------------------
(* Argument Adapter *)

ToolName(moduleName, methodName) ==
  IF moduleName = "client" THEN methodName ELSE <<moduleName, "_">> \o methodName

noArgumentMethods ==
  { <<"accounts", "_", "get", "All">>,
    <<"accounts", "_", "get", "Balances">>,
    <<"accounts", "_", "get", "Type", "Options">>,
    <<"transactions", "_", "get", "Transactions", "Summary">>,
    <<"transactions", "_", "get", "Transactions", "Summary", "Card">>,
    <<"budgets", "_", "get", "Budgets">>,
    <<"categories", "_", "get", "Categories">>,
    <<"cashflow", "_", "get", "Cashflow", "Summary">>,
    <<"recurring", "_", "get", "Recurring", "Streams">>,
    <<"institutions", "_", "get", "Institutions">>,
    <<"insights", "_", "get", "Insights">>,
    <<"get", "_", "me">> }

\* the clone of the input with the limit capped and the date window filled in
TransactionArgs(args, now) ==
  LET capped == IF Get(args, "limit").t = "number" /\ Get(args, "limit").v > 100
                THEN Merge(args, [limit |-> Num(100)])
                ELSE args
  IN  IF ~Truthy(Get(capped, "startDate")) /\ ~Truthy(Get(capped, "endDate"))
      THEN Merge(capped, [startDate |-> Str(ToISODate(ThirtyDaysBefore(now))),
                          endDate |-> Str(ToISODate(now))])
      ELSE capped

\* tools.ts adaptArguments: the positional argument list of the external call
adaptArguments(toolName, args, now) ==
  IF toolName \in noArgumentMethods THEN << >>
  ELSE IF IsById(toolName)
  THEN << Get(args, "id") >>
  ELSE IF toolName = <<"transactions", "_", "get", "Transaction", "Details">>
  THEN << Get(args, "transactionId") >>
  ELSE IF Includes(toolName, <<"History">>) \/ Includes(toolName, <<"NetWorth">>)
  THEN (IF ~Truthy(Get(args, "startDate")) /\ ~Truthy(Get(args, "endDate"))
        THEN << >>
        ELSE << Obj(args) >>)
  ELSE IF Includes(toolName, <<"Transactions">>)
  THEN << Obj(TransactionArgs(args, now)) >>
  ELSE IF Includes(toolName, <<"update">>)
  THEN << Get(args, "id"), Get(args, "data") >>
  ELSE IF Includes(toolName, <<"create">>)
  THEN << Get(args, "data") >>
  ELSE IF DOMAIN args = {} THEN << >> ELSE << Obj(args) >>

\* createServer.ts adaptArguments: no transaction-detail rule, and create and
\* update both pass the data alone
adaptArgumentsCS(toolName, args, now) ==
  IF toolName \in noArgumentMethods THEN << >>
  ELSE IF IsById(toolName)
  THEN << Get(args, "id") >>
  ELSE IF Includes(toolName, <<"History">>) \/ Includes(toolName, <<"NetWorth">>)
  THEN (IF ~Truthy(Get(args, "startDate")) /\ ~Truthy(Get(args, "endDate"))
        THEN << >>
        ELSE << Obj(args) >>)
  ELSE IF Includes(toolName, <<"Transactions">>)
  THEN << Obj(TransactionArgs(args, now)) >>
  ELSE IF Includes(toolName, <<"create">>) \/ Includes(toolName, <<"update">>)
  THEN << Get(args, "data") >>
  ELSE IF DOMAIN args = {} THEN << >> ELSE << Obj(args) >>

\* an adapter that writes to the object it was given
AdapterAlias == "args"

\* const transactionArgs = { ...args }: the object the adapter writes the
\* capped limit and the date window to is a clone of its input
TransactionArgsRef == "copy"

\* the input object once adaptArguments has returned callArgs: written to
\* only if transactionArgs is the input itself
ArgsAfterAdapt(args, callArgs, now) ==
  IF TransactionArgsRef = "args" /\ callArgs = << Obj(TransactionArgs(args, now)) >>
  THEN TransactionArgs(args, now)
  ELSE args

-----------------------------------------------------------------------------
(* The external client: groups of operations and top-level operations.     *)
(* An object has the members of its prototype and its own members; a       *)
(* member is a function or a plain value.                                  *)

Member(name, fn) == [name |-> name, fn |-> fn]

Object(proto, own) == [proto |-> proto, own |-> own]

MemberNames(members) == [i \in 1..Len(members) |-> members[i].name]

HasMember(members, name) == \E i \in 1..Len(members) : members[i].name = name

MemberAt(members, name) == members[CHOOSE i \in 1..Len(members) : members[i].name = name]

\* typeof obj[name] === "function": own members shadow the prototype's
IsFunction(obj, name) ==
  IF HasMember(obj.own, name) THEN MemberAt(obj.own, name).fn
  ELSE IF HasMember(obj.proto, name) THEN MemberAt(obj.proto, name).fn
  ELSE FALSE

RECURSIVE Dedupe(_)
\* Array.from(new Set(names)): the first occurrence of each name, in order
Dedupe(s) ==
  IF s = << >> THEN << >>
  ELSE LET rest == Dedupe(SubSeq(s, 1, Len(s) - 1))
           last == s[Len(s)]
       IN  IF \E i \in 1..Len(rest) : rest[i] = last THEN rest ELSE Append(rest, last)

\* names of the prototype, then the object's own keys
PropertyNames(obj) == Dedupe(MemberNames(obj.proto) \o MemberNames(obj.own))

sdkModules ==
  << "accounts", "transactions", "budgets", "categories",
     "cashflow", "recurring", "institutions", "insights" >>

\* monarchClient[moduleName] is truthy
HasModule(c, moduleName) == moduleName \in DOMAIN c.mods

\* the callable, non-private operation names of a group
ModuleMethodNames(obj) ==
  SelectSeq(PropertyNames(obj),
            LAMBDA name : /\ name # <<"constructor">>
                          /\ IsFunction(obj, name)
                          /\ ~StartsWith(name, <<"_">>))

\* the callable, non-private top-level operation names, the authentication
\* operations among them
DirectMethodNamesWithLogin(c) == ModuleMethodNames(c)

\* the callable, non-private top-level operation names, without the
\* authentication operations
DirectMethodNames(c) ==
  SelectSeq(PropertyNames(c),
            LAMBDA name : /\ name # <<"constructor">>
                          /\ IsFunction(c, name)
                          /\ ~StartsWith(name, <<"_">>)
                          /\ name # <<"login">>
                          /\ name # <<"interactive", "Login">>)

-----------------------------------------------------------------------------
(* Tool Catalog Builder *)

ToolDefinition(name, kind, moduleName, methodName, schema) ==
  [name |-> name, kind |-> kind, moduleName |-> moduleName,
   methodName |-> methodName, schema |-> schema]

SmartQueryName == <<"transactions", "_", "smart", "Query">>

SummaryToolNames ==
  << <<"spending", "_", "get", "By", "Category", "Month">>,
     <<"accounts", "_", "get", "Balance", "Trends">>,
     <<"budget", "_", "get", "Variance", "Summary">>,
     <<"insights", "_", "get", "Quick", "Stats">> >>

BudgetVarianceName == SummaryToolNames[3]

\* tools.ts buildToolDefinition: name, schema and handler of one operation
buildToolDefinition(moduleName, methodName) ==
  ToolDefinition(ToolName(moduleName, methodName), "generated", moduleName, methodName,
                 generateInputSchema(moduleName, methodName))

\* createServer.ts buildToolDefinition
buildToolDefinitionCS(moduleName, methodName) ==
  ToolDefinition(ToolName(moduleName, methodName), "generatedCS", moduleName, methodName,
                 generateInputSchemaCS(moduleName, methodName))

RECURSIVE ModuleTools(_, _, _)
\* sdkModules.forEach: the tools of the first n groups, for the groups the
\* client exposes; cs selects createServer.ts's builder
ModuleTools(c, n, cs) ==
  IF n = 0 THEN << >>
  ELSE LET moduleName == sdkModules[n]
           names == IF HasModule(c, moduleName)
                    THEN ModuleMethodNames(c.mods[moduleName])
                    ELSE << >>
       IN  ModuleTools(c, n - 1, cs) \o
           [i \in 1..Len(names) |->
              IF cs THEN buildToolDefinitionCS(moduleName, names[i])
                    ELSE buildToolDefinition(moduleName, names[i])]

\* the smart-query tool tools.ts synthesizes
SmartQueryTool ==
  ToolDefinition(SmartQueryName, "smartQuery", "transactions", <<"smart", "Query">>,
                 "SmartQuery")

\* tools.ts createToolDefinitions
createToolDefinitions(c) ==
  LET tools == ModuleTools(c, Len(sdkModules), FALSE)
      hasSmartQueryTool == \E i \in 1..Len(tools) : tools[i].name = SmartQueryName
      smart == IF HasModule(c, "transactions") /\ ~hasSmartQueryTool
               THEN << SmartQueryTool >>
               ELSE << >>
      direct == DirectMethodNames(c)
  IN  tools \o smart \o
      [i \in 1..Len(direct) |-> buildToolDefinition("client", direct[i])]

\* createServer.ts createToolDefinitions: no smart-query tool
createToolDefinitionsCS(c) ==
  LET direct == DirectMethodNames(c)
  IN  ModuleTools(c, Len(sdkModules), TRUE) \o
      [i \in 1..Len(direct) |-> buildToolDefinitionCS("client", direct[i])]

\* the smart-query tool index.ts adds
SmartQueryToolNL ==
  ToolDefinition(SmartQueryName, "smartQueryNL", "transactions", <<"smart", "Query">>,
                 "SmartQuery")

SummarySchemas ==
  << "SpendingByCategoryMonth", "BalanceTrends", "BudgetVariance", "QuickStats" >>

\* the summary tools index.ts adds
SummaryTools ==
  [i \in 1..Len(SummaryToolNames) |->
     ToolDefinition(SummaryToolNames[i], "summary", "summary", SummaryToolNames[i],
                    SummarySchemas[i])]

\* index.ts main: the catalog the server lists
mainToolDefinitions(c) == createToolDefinitions(c) \o << SmartQueryToolNL >> \o SummaryTools

\* the catalog of a server built by the given entry point
CatalogOf(v, c) == IF v = "index" THEN mainToolDefinitions(c) ELSE createToolDefinitionsCS(c)

\* a lookup that answers every name with the first entry
FirstEntry(tools, name) == 1

\* new Map(toolDefinitions.map(...)).get(name): a later entry replaces an
\* earlier one of the same name; 0 when there is none
toolsMapGet(tools, name) ==
  LET hits == {i \in 1..Len(tools) : tools[i].name = name}
  IN  IF hits = {} THEN 0 ELSE CHOOSE i \in hits : \A j \in hits : j <= i

-----------------------------------------------------------------------------
(* Client shapes *)

Fn(name) == Member(name, TRUE)

Val(name) == Member(name, FALSE)

Ctor == Fn(<<"constructor">>)

\* the shape of the test suite's MockClient, with class methods
ClientFull ==
  [mods |-> [accounts |-> Object(<<Ctor, Fn(<<"get", "All">>), Fn(<<"get", "ById">>),
                                   Fn(<<"_", "fetch">>)>>, << >>),
             transactions |-> Object(<<Ctor>>, <<Fn(<<"get", "Transactions">>),
                                                 Fn(<<"smart", "Query">>)>>),
             budgets |-> Object(<<Ctor, Fn(<<"get", "Budgets">>)>>, << >>)],
   proto |-> <<Ctor, Fn(<<"login">>), Fn(<<"interactive", "Login">>),
               Fn(<<"get", "_", "me">>)>>,
   own |-> <<Val(<<"base", "URL">>)>>]

\* no native smart query, and a top-level operation named like a grouped one
ClientPlain ==
  [mods |-> [accounts |-> Object(<<Ctor, Fn(<<"get", "All">>)>>, << >>),
             transactions |-> Object(<<Ctor, Fn(<<"get", "Transactions">>)>>, << >>)],
   proto |-> <<Ctor, Fn(<<"login">>)>>,
   own |-> <<Fn(<<"accounts", "_", "get", "All">>)>>]

Clients == {ClientFull, ClientPlain}

-----------------------------------------------------------------------------
(* Text helpers: template literals, joins, numbers *)

RECURSIVE Join(_, _)
\* parts.join(sep)
Join(parts, sep) ==
  IF parts = << >> THEN << >>
  ELSE IF Len(parts) = 1 THEN parts[1]
  ELSE Join(SubSeq(parts, 1, Len(parts) - 1), sep) \o sep \o parts[Len(parts)]

Abs(n) == IF n < 0 THEN -n ELSE n

Min(a, b) == IF a <= b THEN a ELSE b

Pad3(n) ==
  IF n < 10 THEN <<"0", "0", ToString(n)>>
  ELSE IF n < 100 THEN <<"0", ToString(n)>>
  ELSE <<ToString(n)>>

RECURSIVE GroupDigits(_)
GroupDigits(n) ==
  IF n < 1000 THEN <<ToString(n)>>
  ELSE GroupDigits(n \div 1000) \o <<",">> \o Pad3(n % 1000)

\* n.toLocaleString() of an integer: thousands separators
LocaleString(n) == IF n < 0 THEN <<"-">> \o GroupDigits(-n) ELSE GroupDigits(n)

\* a || b
Or(a, b) == IF Truthy(a) THEN a ELSE b

\* x?.field and x.field of a value that may not be an object
Prop(x, f) == IF x.t = "object" THEN Get(x.v, f) ELSE Undefined

\* the number a numeric expression reads from a value (0 when it is absent)
NumberOf(x) == IF x.t = "number" THEN x.v ELSE 0

\* the order in which the keys of the model's objects were inserted
KeyOrder ==
  << "id", "name", "displayName", "amount", "balance", "currentBalance",
     "displayBalance", "date", "description", "category", "type", "status",
     "total", "count", "email", "transactions", "merchantName", "account",
     "notes", "group", "budgeted", "limit", "actual", "spent", "isHidden",
     "subtype", "institution", "display", "displayLastUpdatedAt",
     "totalIncome", "totalExpenses", "netIncome", "totalTransactions",
     "query", "verbosity", "offset", "startDate", "endDate", "accountIds",
     "categoryIds", "search", "absAmountRange", "includeHidden", "data",
     "transactionId", "month", "topN", "period",
     "_sortByAmount", "_originalQuery" >>

\* Object.keys(rec)
ObjectKeys(rec) == SelectSeq(KeyOrder, LAMBDA k : k \in DOMAIN rec)

RECURSIVE JsonStringify(_, _)
\* JSON.stringify(x, null, indent); indent is the whitespace token
JsonStringify(x, indent) ==
  CASE x.t = "string" -> <<"\"">> \o x.v \o <<"\"">>
    [] x.t = "number" -> <<ToString(x.v)>>
    [] x.t = "boolean" -> IF x.v THEN <<"true">> ELSE <<"false">>
    [] x.t = "array" ->
         IF x.v = << >> THEN <<"[]">>
         ELSE <<"[", indent>> \o
              Join([i \in 1..Len(x.v) |->
                      IF x.v[i].t = "undefined" THEN <<"null">>
                      ELSE JsonStringify(x.v[i], indent)],
                   <<",", indent>>) \o <<"]">>
    [] x.t = "object" ->
         LET keys == SelectSeq(ObjectKeys(x.v), LAMBDA k : x.v[k].t # "undefined")
         IN  IF keys = << >> THEN <<"{}">>
             ELSE <<"{", indent>> \o
                  Join([i \in 1..Len(keys) |->
                          <<"\"", keys[i], "\"", ": ">> \o JsonStringify(x.v[keys[i]], indent)],
                       <<",", indent>>) \o <<"}">>
    [] OTHER -> <<"null">>

\* String(x) and ${x}
ToText(x) ==
  CASE x.t = "string" -> x.v
    [] x.t = "number" -> <<ToString(x.v)>>
    [] x.t = "boolean" -> IF x.v THEN <<"true">> ELSE <<"false">>
    [] x.t = "undefined" -> <<"undefined">>
    [] x.t = "null" -> <<"null">>
    [] x.t = "array" -> Join([i \in 1..Len(x.v) |-> <<"[item]">>], <<",">>)
    [] OTHER -> <<"[object Object]">>

VerbosityOf(args) ==
  IF Truthy(Get(args, "verbosity")) THEN Get(args, "verbosity").v ELSE <<"summary">>

IndentOf(verbosity) == IF verbosity = <<"detailed">> THEN "  " ELSE " "

-----------------------------------------------------------------------------
(* Result Formatter of tools.ts and createServer.ts (the two are the same) *)

formatResult(toolName, result, args) ==
  LET verbosity == VerbosityOf(args)
  IN  IF result.t = "string" THEN result.v
      ELSE IF result.t = "array"
      THEN (IF verbosity = <<"brief">>
            THEN toolName \o <<" returned ", ToString(Len(result.v)), " item(s)">>
            ELSE JsonStringify(result, IndentOf(verbosity)))
      ELSE IF result.t = "object"
      THEN (IF verbosity = <<"brief">>
            THEN JsonStringify(Arr([i \in 1..Len(ObjectKeys(result.v)) |->
                                      Str(<<ObjectKeys(result.v)[i]>>)]),
                               IndentOf(verbosity))
            ELSE JsonStringify(result, IndentOf(verbosity)))
      ELSE ToText(result)

-----------------------------------------------------------------------------
(* Result Formatter of formatters/monarch.ts (emoji are written as words) *)

RECURSIVE SumOf(_)
SumOf(ns) == IF ns = << >> THEN 0 ELSE SumOf(SubSeq(ns, 1, Len(ns) - 1)) + ns[Len(ns)]

\* items.slice(0, n)
\* a renderer that shows every item
NoSlice(items, n) == items

Slice(items, n) == SubSeq(items, 1, Min(n, Len(items)))

AccountTypeText(account) ==
  ToText(Or(Or(Prop(Prop(account, "type"), "display"),
               Prop(Prop(account, "subtype"), "display")),
            Str(<<"Unknown">>)))

AccountBalance(account) ==
  NumberOf(Or(Or(Prop(account, "currentBalance"), Prop(account, "displayBalance")), Num(0)))

AccountNameText(account) == ToText(Or(Prop(account, "displayName"), Prop(account, "name")))

formatAccounts(accounts, verbosity) ==
  LET n == Len(accounts)
      totalBalance == SumOf([i \in 1..n |-> NumberOf(Prop(accounts[i], "currentBalance"))])
      hiddenCount == Cardinality({i \in 1..n : Truthy(Prop(accounts[i], "isHidden"))})
      block(a) == <<"* **">> \o AccountNameText(a) \o <<"**\n  Type: ">> \o AccountTypeText(a)
                  \o <<"\n  Balance: $">> \o LocaleString(AccountBalance(a))
                  \o <<"\n  Institution: ">>
                  \o ToText(Or(Prop(Prop(a, "institution"), "name"), Str(<<"Manual">>)))
      line(a) == <<"* **">> \o AccountNameText(a) \o <<"** (">> \o AccountTypeText(a)
                 \o <<") - $">> \o LocaleString(AccountBalance(a))
      shown == Slice(accounts, 15)
  IN  IF verbosity = <<"brief">>
      THEN <<"[bank] ", ToString(n), " accounts, Total Balance: $">> \o LocaleString(totalBalance)
      ELSE IF verbosity = <<"detailed">>
      THEN <<"[bank] **Accounts** (", ToString(n), " total)\n\n">> \o
           Join([i \in 1..n |-> block(accounts[i])], <<"\n\n">>)
      ELSE <<"[bank] **Accounts** (", ToString(n), " total, ", ToString(hiddenCount),
             " hidden)\n\n">> \o
           Join([i \in 1..Len(shown) |-> line(shown[i])], <<"\n">>) \o
           (IF n > 15 THEN <<"\n... and ", ToString(n - 15), " more accounts">> ELSE << >>) \o
           <<"\n\n**Total Balance: $">> \o LocaleString(totalBalance) \o <<"**">>

\* txn.amount || 0: the amount with its sign
SignedAmount(txn) == NumberOf(Prop(txn, "amount"))

\* Math.abs(txn.amount || 0)
AbsAmount(txn) == Abs(NumberOf(Prop(txn, "amount")))

RECURSIVE InsertSorted(_, _, _)
\* x placed after every element that does not sort after it
InsertSorted(sorted, x, desc) ==
  IF sorted = << >> THEN << x >>
  ELSE LET last == sorted[Len(sorted)]
           cmp == IF desc THEN AbsAmount(x) - AbsAmount(last)
                          ELSE AbsAmount(last) - AbsAmount(x)
       IN  IF cmp <= 0 THEN Append(sorted, x)
           ELSE Append(InsertSorted(SubSeq(sorted, 1, Len(sorted) - 1), x, desc), last)

RECURSIVE SortByAmount(_, _)
\* Array.prototype.sort with the amount comparator: a stable sort
SortByAmount(items, desc) ==
  IF items = << >> THEN << >>
  ELSE InsertSorted(SortByAmount(SubSeq(items, 1, Len(items) - 1), desc),
                    items[Len(items)], desc)

\* new Date(x).toLocaleDateString()
LocaleDateText(x) == <<"date(">> \o ToText(x) \o <<")">>

\* processedTransactions names the caller's array itself
AliasedRef == "caller"

\* let processedTransactions = [...transactions]: the name of a new array
ProcessedRef == "copy"

\* the arrays after formatTransactions has sorted: the caller's array and the
\* copy hold the same elements, and sort() reorders in place the array that
\* processedTransactions names
ArraysAfterSort(transactions, originalArgs) ==
  LET arrays == [caller |-> transactions, copy |-> transactions]
  IN  IF Truthy(Get(originalArgs, "_sortByAmount"))
      THEN [arrays EXCEPT ![ProcessedRef] =
              SortByAmount(transactions, Get(originalArgs, "_sortByAmount") = Str(<<"desc">>))]
      ELSE arrays

\* the list formatTransactions renders: a sorted copy when a sort directive is given
ProcessedTransactions(transactions, originalArgs) ==
  ArraysAfterSort(transactions, originalArgs)[ProcessedRef]

formatTransactions(transactions, originalArgs) ==
  LET processed == ProcessedTransactions(transactions, originalArgs)
      n == Len(processed)
      verbosity == VerbosityOf(originalArgs)
      totalAmount == SumOf([i \in 1..n |-> AbsAmount(processed[i])])
      ranking(i) == IF Truthy(Get(originalArgs, "_sortByAmount"))
                    THEN <<ToString(i), ". ">> ELSE <<"* ">>
      amount(txn) == NumberOf(Prop(txn, "amount"))
      line(txn, i) ==
        ranking(i)
        \o (IF Truthy(Prop(txn, "date")) THEN LocaleDateText(Prop(txn, "date"))
            ELSE <<"Unknown date">>)
        \o <<" - **">>
        \o ToText(Or(Or(Prop(txn, "merchantName"), Prop(txn, "description")),
                     Str(<<"Unknown merchant">>)))
        \o <<"**\n  Amount: ", IF amount(txn) >= 0 THEN "+" ELSE "-", "$">>
        \o LocaleString(Abs(amount(txn)))
        \o <<"\n  Category: ">>
        \o ToText(Or(Prop(Prop(txn, "category"), "name"), Str(<<"Uncategorized">>)))
        \o <<"\n  Account: ">>
        \o ToText(Or(Prop(Prop(txn, "account"), "displayName"), Str(<<"Unknown">>)))
      detail(txn, i) ==
        line(txn, i) \o <<"\n  ID: ">> \o ToText(Or(Prop(txn, "id"), Str(<<"N/A">>)))
        \o <<"\n  ">>
        \o (IF Truthy(Prop(txn, "notes")) THEN <<"Notes: ">> \o ToText(Prop(txn, "notes"))
            ELSE << >>)
      header == <<"[card] **Transaction Summary** (", ToString(n), " transactions)\n\n">>
      body(cap, detailed) ==
        LET displayCount == Min(cap, n)
        IN  header \o
            Join([i \in 1..displayCount |->
                    IF detailed THEN detail(processed[i], i) ELSE line(processed[i], i)],
                 <<"\n\n">>) \o
            (IF n > displayCount
             THEN <<"\n\n... and ", ToString(n - displayCount), " more transactions">>
             ELSE << >>) \o
            <<"\n\n**Total Transaction Volume: $">> \o LocaleString(totalAmount) \o <<"**">>
  IN  IF verbosity = <<"brief">>
      THEN <<"[card] ", ToString(n), " transactions, Total: $">> \o LocaleString(totalAmount)
      ELSE IF verbosity = <<"detailed">> THEN body(25, TRUE)
      ELSE body(20, FALSE)

formatCategories(categories, verbosity) ==
  LET n == Len(categories)
      line(cat) == <<"* **">> \o ToText(Prop(cat, "name")) \o <<"** ">> \o
                   (IF Truthy(Prop(cat, "group"))
                    THEN <<"(">> \o ToText(Prop(Prop(cat, "group"), "name")) \o <<")">>
                    ELSE << >>)
      block(cat) == line(cat) \o <<"\n  ID: ">> \o ToText(Or(Prop(cat, "id"), Str(<<"N/A">>)))
      shown == Slice(categories, 15)
  IN  IF verbosity = <<"brief">>
      THEN <<"[label] ", ToString(n), " categories">>
      ELSE IF verbosity = <<"detailed">>
      THEN <<"[label] **Categories** (", ToString(n), " total)\n\n">> \o
           Join([i \in 1..n |-> block(categories[i])], <<"\n\n">>)
      ELSE <<"[label] **Categories** (", ToString(n), " total)\n\n">> \o
           Join([i \in 1..Len(shown) |-> line(shown[i])], <<"\n">>) \o
           (IF n > 15 THEN <<"\n... and ", ToString(n - 15), " more categories">> ELSE << >>)

BudgetSpent(budget) == NumberOf(Or(Or(Prop(budget, "actual"), Prop(budget, "spent")), Num(0)))

BudgetLimit(budget) == NumberOf(Or(Or(Prop(budget, "budgeted"), Prop(budget, "limit")), Num(0)))

\* Math.round((spent / budgeted) * 100), or 0 when nothing is budgeted
BudgetPercentage(spent, budgeted) ==
  IF budgeted > 0 THEN (200 * spent + budgeted) \div (2 * budgeted) ELSE 0

formatBudgets(budgets, verbosity) ==
  LET n == Len(budgets)
      line(b) ==
        <<"* **">> \o ToText(Or(Prop(Prop(b, "category"), "name"), Prop(b, "name")))
        \o <<"**\n  Budgeted: $">> \o LocaleString(BudgetLimit(b))
        \o <<"\n  Spent: $">> \o LocaleString(BudgetSpent(b))
        \o <<" (", ToString(BudgetPercentage(BudgetSpent(b), BudgetLimit(b))), "%)">>
        \o <<"\n  Remaining: $">> \o LocaleString(BudgetLimit(b) - BudgetSpent(b))
      block(b) == line(b) \o <<"\n  ID: ">> \o ToText(Or(Prop(b, "id"), Str(<<"N/A">>)))
      shown == Slice(budgets, 10)
  IN  IF verbosity = <<"brief">>
      THEN <<"[money] ", ToString(n), " budget categories, $">>
           \o LocaleString(SumOf([i \in 1..n |-> BudgetSpent(budgets[i])])) \o <<"/$">>
           \o LocaleString(SumOf([i \in 1..n |-> BudgetLimit(budgets[i])])) \o <<" spent">>
      ELSE IF verbosity = <<"detailed">>
      THEN <<"[money] **Budget Summary** (", ToString(n), " categories)\n\n">> \o
           Join([i \in 1..n |-> block(budgets[i])], <<"\n\n">>)
      ELSE <<"[money] **Budget Summary** (", ToString(n), " categories)\n\n">> \o
           Join([i \in 1..Len(shown) |-> line(shown[i])], <<"\n\n">>) \o
           (IF n > 10 THEN <<"\n\n... and ", ToString(n - 10), " more budget categories">>
            ELSE << >>)


formatSummary(data) ==
  LET entry(key, label) ==
        IF Get(data, key).t # "undefined"
        THEN << <<label>> \o LocaleString(NumberOf(Get(data, key))) >>
        ELSE << >>
  IN  Join(entry("totalIncome", "[money] Total Income: $")
           \o entry("totalExpenses", "[spend] Total Expenses: $")
           \o entry("netIncome", "[chart] Net Income: $")
           \o entry("totalTransactions", "[stats] Total Transactions: "),
           <<"\n">>)

formatAccount(account) ==
  <<"[stats] **">> \o AccountNameText(account) \o <<"**\nType: ">> \o AccountTypeText(account)
  \o <<"\nBalance: $">> \o LocaleString(AccountBalance(account))
  \o <<"\nInstitution: ">>
  \o ToText(Or(Prop(Prop(account, "institution"), "name"), Str(<<"Manual">>)))
  \o <<"\nUpdated: ">>
  \o (IF Truthy(Prop(account, "displayLastUpdatedAt"))
      THEN LocaleDateText(Prop(account, "displayLastUpdatedAt"))
      ELSE <<"Unknown">>)

importantKeys ==
  << "id", "name", "displayName", "amount", "balance", "currentBalance",
     "displayBalance", "date", "description", "category", "type", "status",
     "total", "count" >>

\* the keys getRelevantFields keeps, in order
RelevantKeys(data) == SelectSeq(importantKeys, LAMBDA k : Get(data, k).t # "undefined")

formatObjectResult(toolName, data) ==
  IF Get(data, "totalIncome").t # "undefined" \/ Get(data, "totalExpenses").t # "undefined"
  THEN formatSummary(data)
  ELSE IF Get(data, "currentBalance").t # "undefined"
  THEN formatAccount(Obj(data))
  ELSE LET keys == RelevantKeys(data)
           serialized == Join([i \in 1..Len(keys) |-> <<keys[i], ": ">> \o ToText(data[keys[i]])],
                              <<"\n">>)
       IN  IF serialized # << >> THEN serialized ELSE toolName \o <<" returned an object">>

\* toolName.replace(/.*_/, ""): what follows the last underscore
AfterLastUnderscore(toolName) ==
  LET at == {i \in 1..Len(toolName) : toolName[i] = "_"}
  IN  IF at = {} THEN toolName
      ELSE SubSeq(toolName, (CHOOSE i \in at : \A j \in at : j <= i) + 1, Len(toolName))

\* { ...data._smartQueryArgs, ...originalArgs }
SmartArgs(data, originalArgs) ==
  Merge(IF Get(data, "_smartQueryArgs").t = "object"
        THEN Get(data, "_smartQueryArgs").v ELSE EmptyRecord,
        originalArgs)

\* data is the array value, with the properties the smart-query handler attaches
formatArrayResult(toolName, data, originalArgs) ==
  LET items == data.v
      verbosity == VerbosityOf(originalArgs)
  IN  IF Len(items) = 0
      THEN <<"No ">> \o AfterLastUnderscore(toolName) \o <<" found.">>
      ELSE IF Includes(toolName, <<"accounts">>)
      THEN formatAccounts(items, verbosity)
      ELSE IF Includes(toolName, <<"transactions">>) \/ toolName = SmartQueryName
      THEN LET smartArgs == SmartArgs(data, originalArgs)
               query == Get(data, "_originalQuery")
               formatted == formatTransactions(items, smartArgs)
           IN  IF Truthy(query)
               THEN <<"[brain] **Smart Query**: \"">> \o ToText(query) \o <<"\"\n\n">> \o formatted
               ELSE formatted
      ELSE IF Includes(toolName, <<"categories">>)
      THEN formatCategories(items, verbosity)
      ELSE IF Includes(toolName, <<"budgets">>)
      THEN formatBudgets(items, verbosity)
      ELSE <<"Found ", ToString(Len(items)), " items:\n">> \o
           Join([i \in 1..Min(10, Len(items)) |->
                   <<ToString(i), ". ">> \o JsonStringify(items[i], "  ")],
                <<"\n">>) \o
           (IF Len(items) > 10
            THEN <<"\n... and ", ToString(Len(items) - 10), " more items">>
            ELSE << >>)

\* formatters/monarch.ts formatResult
formatMonarchResult(toolName, result, originalArgs) ==
  IF ~Truthy(result)
  THEN <<"No data returned for ">> \o toolName
  ELSE IF \E i \in 1..Len(SummaryToolNames) : SummaryToolNames[i] = toolName
  THEN ToText(result)
  ELSE IF result.t = "array"
  THEN formatArrayResult(toolName, result, originalArgs)
  ELSE IF result.t = "object"
  THEN formatObjectResult(toolName, result.v)
  ELSE ToText(result)

\* the caller's array after formatArrayResult: formatTransactions is the one
\* renderer that sorts
ArrayAfterFormat(toolName, data, originalArgs) ==
  IF Len(data.v) = 0 THEN data
  ELSE IF Includes(toolName, <<"accounts">>) THEN data
  ELSE IF Includes(toolName, <<"transactions">>) \/ toolName = SmartQueryName
  THEN [data EXCEPT !.v = ArraysAfterSort(data.v, SmartArgs(data, originalArgs)).caller]
  ELSE data

\* the caller's result after formatters/monarch.ts formatResult has returned
ResultAfterFormat(toolName, result, originalArgs) ==
  IF ~Truthy(result) THEN result
  ELSE IF \E i \in 1..Len(SummaryToolNames) : SummaryToolNames[i] = toolName THEN result
  ELSE IF result.t = "array" THEN ArrayAfterFormat(toolName, result, originalArgs)
  ELSE result

-----------------------------------------------------------------------------
(* Natural-Language Query Parser (index.ts).  A query is a sequence of      *)
(* atoms: words, runs of digits, " ", "$" and ",".  A word that contains a  *)
(* keyword is written as its fragments, so a search for a keyword is a      *)
(* search for an atom.  The queries of the model carry no decimal point.    *)

\* the largest number a run of digits of the model denotes
MaxNumber == 1000

IsDigits(atom) == \E n \in 0..MaxNumber : ToString(n) = atom

\* parseInt(atom, 10)
ParseInt(atom) == CHOOSE n \in 0..MaxNumber : ToString(n) = atom

IsSpaces(s, from, to) == \A k \in from..to : s[k] = " "

\* keyword \s+ digits, starting at atom i: the position of the digits, or 0
DigitsAfter(s, i) ==
  LET js == {j \in (i + 2)..Len(s) : IsSpaces(s, i + 1, j - 1) /\ IsDigits(s[j])}
  IN  IF js = {} THEN 0 ELSE CHOOSE j \in js : TRUE

\* digits \s+ keyword, starting at atom i: the position of the keyword, or 0
KeywordAfter(s, i, keywords) ==
  LET js == {j \in (i + 2)..Len(s) : IsSpaces(s, i + 1, j - 1) /\ s[j] \in keywords}
  IN  IF js = {} THEN 0 ELSE CHOOSE j \in js : TRUE

CountBefore == {"last", "recent", "top", "first"}

CountAfter == {"last", "recent", "top", "largest", "biggest", "smallest"}

\* the count the leftmost match of the count pattern captures, or -1
CountMatch(s) ==
  LET hits == {i \in 1..Len(s) :
                 \/ s[i] \in CountBefore /\ DigitsAfter(s, i) # 0
                 \/ IsDigits(s[i]) /\ KeywordAfter(s, i, CountAfter) # 0}
      first == CHOOSE i \in hits : \A j \in hits : i <= j
  IN  IF hits = {} THEN -1
      ELSE IF s[first] \in CountBefore THEN ParseInt(s[DigitsAfter(s, first)])
      ELSE ParseInt(s[first])

\* the merchant patterns in order: the atom runs each matches, and its keyword
merchantPatterns ==
  << [pattern |-> {<<"amazon">>, <<"amzn">>}, search |-> <<"amazon">>],
     [pattern |-> {<<"walmart">>, <<"wal-mart">>}, search |-> <<"walmart">>],
     [pattern |-> {<<"target">>}, search |-> <<"target">>],
     [pattern |-> {<<"costco">>}, search |-> <<"costco">>],
     [pattern |-> {<<"starbucks">>}, search |-> <<"starbucks">>],
     [pattern |-> {<<"mcdonalds">>, <<"mcdonald's">>}, search |-> <<"mcdonalds">>],
     [pattern |-> {<<"netflix">>}, search |-> <<"netflix">>],
     [pattern |-> {<<"spotify">>}, search |-> <<"spotify">>],
     [pattern |-> {<<"uber">>, <<"lyft">>}, search |-> <<"uber">>],
     [pattern |-> {<<"apple">>, <<"app", " ", "store">>}, search |-> <<"apple">>],
     [pattern |-> {<<"google">>, <<"youtube">>}, search |-> <<"google">>],
     [pattern |-> {<<"gas", " ", "station">>, <<"gasoline">>, <<"fuel">>}, search |-> <<"gas">>],
     [pattern |-> {<<"restaurant">>, <<"dining">>, <<"food">>}, search |-> <<"restaurant">>],
     [pattern |-> {<<"grocery">>, <<"groceries">>}, search |-> <<"grocery">>],
     [pattern |-> {<<"subscription">>, <<"subscriptions">>}, search |-> <<"subscription">>] >>

PatternTest(p, s) == \E run \in p.pattern : Includes(s, run)

\* the keyword of the first merchant pattern the query matches, or << >>
MerchantMatch(s) ==
  LET hits == {i \in 1..Len(merchantPatterns) : PatternTest(merchantPatterns[i], s)}
  IN  IF hits = {} THEN << >>
      ELSE merchantPatterns[CHOOSE i \in hits : \A j \in hits : i <= j].search

OverWords == {<<"over">>, <<"above">>, <<"more", " ", "than">>}

UnderWords == {<<"under">>, <<"below">>, <<"less", " ", "than">>}

\* \d{3}: the value of a run of three digits, or -1
ThreeDigits(atom) ==
  IF atom = "000" THEN 0
  ELSE IF IsDigits(atom) /\ ParseInt(atom) \in 100..999 THEN ParseInt(atom)
  ELSE -1

\* the atoms of digits(,ddd)* starting at atom j: the amount with commas stripped
RECURSIVE AmountFrom(_, _, _)
AmountFrom(s, j, acc) ==
  IF j + 2 <= Len(s) /\ s[j + 1] = "," /\ ThreeDigits(s[j + 2]) # -1
  THEN AmountFrom(s, j + 2, acc * 1000 + ThreeDigits(s[j + 2]))
  ELSE acc

\* a threshold word at atom i, then \s*, an optional "$", then the amount:
\* the amount, or -1
AmountAfter(s, i, words) ==
  LET ends == {e \in i..Len(s) : SubSeq(s, i, e) \in words}
      hits == {j \in (i + 1)..Len(s) :
                 /\ IsDigits(s[j])
                 /\ \E e \in ends :
                      \/ IsSpaces(s, e + 1, j - 1)
                      \/ j - 1 > e /\ s[j - 1] = "$" /\ IsSpaces(s, e + 1, j - 2)}
  IN  IF hits = {} THEN -1
      ELSE LET j == CHOOSE j \in hits : \A k \in hits : j <= k
           IN  AmountFrom(s, j, ParseInt(s[j]))

\* the amount the leftmost match of the threshold pattern captures, or -1
AmountMatch(s) ==
  LET hits == {i \in 1..Len(s) :
                 AmountAfter(s, i, OverWords) # -1 \/ AmountAfter(s, i, UnderWords) # -1}
      first == CHOOSE i \in hits : \A j \in hits : i <= j
  IN  IF hits = {} THEN -1
      ELSE IF AmountAfter(s, first, OverWords) # -1 THEN AmountAfter(s, first, OverWords)
      ELSE AmountAfter(s, first, UnderWords)

\* days since 1 January 1970
DaysFromCivil(date) ==
  LET y == IF date.m <= 2 THEN date.y - 1 ELSE date.y
      era == y \div 400
      yoe == y - era * 400
      mp == IF date.m > 2 THEN date.m - 3 ELSE date.m + 9
      doy == (153 * mp + 2) \div 5 + date.d - 1
      doe == yoe * 365 + yoe \div 4 - yoe \div 100 + doy
  IN  era * 146097 + doe - 719468

\* date.getDay(): 0 is Sunday
GetDay(date) == (DaysFromCivil(date) + 4) % 7

\* the relative date window of the query, if it names one
DateWindow(s, now) ==
  IF Includes(s, <<"this", " ", "month">>)
  THEN [startDate |-> Str(ToISODate([now EXCEPT !.d = 1])), endDate |-> Str(ToISODate(now))]
  ELSE IF Includes(s, <<"last", " ", "month">>)
  THEN LET lastMonthEnd == PreviousDay([now EXCEPT !.d = 1])
       IN  [startDate |-> Str(ToISODate([lastMonthEnd EXCEPT !.d = 1])),
            endDate |-> Str(ToISODate(lastMonthEnd))]
  ELSE IF Includes(s, <<"this", " ", "week">>)
  THEN [startDate |-> Str(ToISODate(MinusDays(now, GetDay(now)))),
        endDate |-> Str(ToISODate(now))]
  ELSE EmptyRecord

Null == [t |-> "null"]

\* index.ts parseNaturalLanguageQuery
parseNaturalLanguageQuery(query, now) ==
  LET lowerQuery == ToLowerCase(query)
      number == CountMatch(lowerQuery)
      limit == IF number # -1 /\ number <= 100 THEN [limit |-> Num(number)] ELSE EmptyRecord
      merchant == IF MerchantMatch(lowerQuery) # << >>
                  THEN [search |-> Str(MerchantMatch(lowerQuery))] ELSE EmptyRecord
      amount == AmountMatch(lowerQuery)
      range == IF amount = -1 THEN EmptyRecord
               ELSE IF \E w \in OverWords : Includes(lowerQuery, w)
               THEN [absAmountRange |-> Arr(<<Num(amount), Undefined>>)]
               ELSE [absAmountRange |-> Arr(<<Undefined, Num(amount)>>)]
      sort == IF \E w \in {"largest", "biggest", "highest"} : Includes(lowerQuery, <<w>>)
              THEN ("_sortByAmount" :> Str(<<"desc">>))
              ELSE IF \E w \in {"smallest", "lowest"} : Includes(lowerQuery, <<w>>)
              THEN ("_sortByAmount" :> Str(<<"asc">>))
              ELSE EmptyRecord
  IN  Merge(Merge(Merge(Merge(limit, merchant), DateWindow(lowerQuery, now)), range), sort)

\* the parsed fields with the query attached and the limit as it was parsed
QueryFilterNoDefault(parsedArgs, query) ==
  Merge(parsedArgs, ("_originalQuery" :> Str(query)))

\* the parsed fields with the limit defaulted and the query attached
QueryFilter(parsedArgs, query) ==
  LET limit == IF Truthy(Get(parsedArgs, "limit")) THEN Get(parsedArgs, "limit") ELSE Num(25)
  IN  Merge(Merge(parsedArgs, [limit |-> limit]), ("_originalQuery" :> Str(query)))

\* index.ts handleSmartTransactionQuery: the filter sent to the transaction fetch
SmartTransactionArgs(query, now) == QueryFilter(parseNaturalLanguageQuery(query, now), query)

-----------------------------------------------------------------------------
(* Errors and calls of the external client *)

NoError == [type |-> "none", code |-> "", message |-> << >>]

Error(message) == [type |-> "Error", code |-> "", message |-> message]

TypeError(message) == [type |-> "TypeError", code |-> "", message |-> message]

RangeError(message) == [type |-> "RangeError", code |-> "", message |-> message]

ZodError(message) == [type |-> "ZodError", code |-> "", message |-> message]

McpError(code, message) == [type |-> "McpError", code |-> code, message |-> message]

Call(moduleName, methodName, args) ==
  [moduleName |-> moduleName, methodName |-> methodName, args |-> args]

\* typeof target[methodName] === "function", on the client as it is now
Callable(c, moduleName, methodName) ==
  IF moduleName = "client" THEN IsFunction(c, methodName)
  ELSE HasModule(c, moduleName) /\ IsFunction(c.mods[moduleName], methodName)

NotAFunction(moduleName, methodName) ==
  TypeError(<<moduleName, ".">> \o methodName \o <<" is not a function">>)

-----------------------------------------------------------------------------
(* Summary tools of index.ts *)

\* new Date().toISOString().substring(0, 7)
ToISOMonth(date) == <<ToString(date.y), "-">> \o Pad2(date.m)

\* the month a YYYY-MM text names, among the years of the model
MonthsNamed(text) ==
  {ym \in [y : 2023..2025, m : 1..12] : ToISOMonth([y |-> ym.y, m |-> ym.m, d |-> 1]) = text}

SpendingMonth(args, now) ==
  IF Truthy(Get(args, "month")) THEN Get(args, "month").v ELSE ToISOMonth(now)

\* getSpendingByCategory up to its await: the transaction fetch of the month
SpendingCalls(args, now) ==
  LET month == SpendingMonth(args, now)
      named == MonthsNamed(month)
  IN  IF named = {}
      THEN [error |-> RangeError(<<"Invalid time value">>), calls |-> << >>]
      ELSE LET ym == CHOOSE ym \in named : TRUE
               last == [y |-> ym.y, m |-> ym.m, d |-> DaysInMonth(ym.y, ym.m)]
           IN  [error |-> NoError,
                calls |-> << Call("transactions", <<"get", "Transactions">>,
                                  << Obj([startDate |-> Str(month \o <<"-", "0", "1">>),
                                          endDate |-> Str(ToISODate(last)),
                                          limit |-> Num(1000)]) >>) >>]

\* the names of the categories spent in, in order of first appearance
SpendingCategories(transactions) ==
  LET spent == SelectSeq(transactions, LAMBDA txn : NumberOf(Prop(txn, "amount")) < 0)
  IN  Dedupe([i \in 1..Len(spent) |->
                ToText(Or(Prop(Prop(spent[i], "category"), "name"), Str(<<"Uncategorized">>)))])

CategoryTotal(transactions, category) ==
  SumOf([i \in 1..Len(transactions) |->
           IF /\ NumberOf(Prop(transactions[i], "amount")) < 0
              /\ ToText(Or(Prop(Prop(transactions[i], "category"), "name"),
                           Str(<<"Uncategorized">>))) = category
           THEN AbsAmount(transactions[i]) ELSE 0])

\* getSpendingByCategory after its await
SpendingText(args, result, now) ==
  LET listed == Or(Prop(result, "transactions"), Arr(<< >>))
      topN == NumberOf(Or(Get(args, "topN"), Num(10)))
  IN  IF result.t \in {"undefined", "null"} \/ listed.t # "array"
      THEN [error |-> TypeError(<<"transactions is not iterable">>), text |-> << >>]
      ELSE LET names == SpendingCategories(listed.v)
               entries == [i \in 1..Len(names) |->
                             Obj([name |-> Str(names[i]),
                                  amount |-> Num(CategoryTotal(listed.v, names[i]))])]
               sorted == SortByAmount(entries, TRUE)
               top == IF topN >= 0 THEN Slice(sorted, topN)
                      ELSE SubSeq(sorted, 1, Len(sorted) + topN)
               total == SumOf([i \in 1..Len(top) |-> AbsAmount(top[i])])
           IN  [error |-> NoError,
                text |-> <<"[spend] ">> \o SpendingMonth(args, now) \o <<" Spending: ">> \o
                         Join([i \in 1..Len(top) |->
                                 Prop(top[i], "name").v \o <<" $", ToString(AbsAmount(top[i]))>>],
                              <<", ">>) \o
                         <<" | Total: $", ToString(total)>>]

\* getBalanceTrends after its await
BalanceTrendsText(args, accounts) ==
  LET period == Or(Get(args, "period"), Str(<<"month">>)).v
      change(a) ==
        LET balance == AccountBalance(a)
            prev == IF period = <<"week">> THEN Prop(a, "balanceOneWeekAgo")
                    ELSE Or(Prop(a, "balanceOneMonthAgo"), Num(0))
            delta == balance - NumberOf(prev)
        IN  AccountNameText(a) \o <<": ", IF delta >= 0 THEN "+" ELSE "-", "$">>
            \o LocaleString(Abs(delta))
  IN  IF accounts.t # "array"
      THEN [error |-> TypeError(<<"accounts.map is not a function">>), text |-> << >>]
      ELSE [error |-> NoError,
            text |-> <<"[chart] Balance changes (">> \o period \o <<"): ">> \o
                     Join([i \in 1..Len(accounts.v) |-> change(accounts.v[i])], <<", ">>)]

BudgetUnavailableText == <<"[money] Budget data unavailable">>

\* getBudgetVarianceSummary after its await, inside its try block
BudgetVarianceText(budgets) ==
  IF budgets.t # "array" THEN BudgetUnavailableText
  ELSE LET n == Len(budgets.v)
           over == {i \in 1..n : BudgetSpent(budgets.v[i]) > BudgetLimit(budgets.v[i])}
           onTrack == {i \in (1..n) \ over :
                         10 * BudgetSpent(budgets.v[i]) > 8 * BudgetLimit(budgets.v[i])}
       IN  <<"[money] Budget Status: ", ToString(Cardinality(over)), " over budget, ",
             ToString(Cardinality(onTrack)), " on track, ",
             ToString(n - Cardinality(over) - Cardinality(onTrack)), " under budget">>

\* the month (1..12) new Date(text).getMonth() reads, in UTC, or 0 for an
\* invalid date
MonthOfDateText(text) ==
  LET months == {ym \in [y : 2023..2025, m : 1..12] :
                   StartsWith(text, ToISOMonth([y |-> ym.y, m |-> ym.m, d |-> 1]) \o <<"-">>)}
      named == {ym \in months :
                  \E d \in 1..DaysInMonth(ym.y, ym.m) :
                    text = ToISODate([y |-> ym.y, m |-> ym.m, d |-> d])}
  IN  IF named = {} THEN 0 ELSE (CHOOSE ym \in named : TRUE).m

\* getQuickStats after both fetches
QuickStatsText(accounts, transactions, now) ==
  LET listed == Prop(transactions, "transactions")
  IN  IF accounts.t # "array" \/ transactions.t \in {"undefined", "null"}
      THEN [error |-> TypeError(<<"accounts.reduce is not a function">>), text |-> << >>]
      ELSE LET totalBalance ==
                 SumOf([i \in 1..Len(accounts.v) |->
                          NumberOf(Prop(accounts.v[i], "currentBalance"))])
               items == IF listed.t = "array" THEN listed.v ELSE << >>
               spending ==
                 SumOf([i \in 1..Len(items) |->
                          IF /\ NumberOf(Prop(items[i], "amount")) < 0
                             /\ Prop(items[i], "date").t = "string"
                             /\ MonthOfDateText(Prop(items[i], "date").v) = now.m
                          THEN AbsAmount(items[i]) ELSE 0])
           IN  [error |-> NoError,
                text |-> <<"[bolt] Net Worth: $">> \o LocaleString(totalBalance)
                         \o <<" | This Month: -$", ToString(spending), " | ",
                              ToString(Len(items)), " recent transactions">>]

-----------------------------------------------------------------------------
(* Configuration *)

\* z.string().email()
IsEmail(x) == x.t = "string" /\ \E i \in 2..(Len(x.v) - 1) : x.v[i] = "@"

\* configSchema.parse(env)
ConfigParse(env) ==
  IF ~IsEmail(env.email)
  THEN [ok |-> FALSE, error |-> ZodError(<<"invalid_type ", "email", " Required">>)]
  ELSE IF env.password.t # "string"
  THEN [ok |-> FALSE, error |-> ZodError(<<"invalid_type ", "password", " Required">>)]
  ELSE IF env.mfaSecret.t \notin {"undefined", "string"}
  THEN [ok |-> FALSE, error |-> ZodError(<<"invalid_type ", "mfaSecret">>)]
  ELSE [ok |-> TRUE, error |-> NoError]

\* config.ts getEnvConfig: the cached configuration, or the parse of the
\* environment, kept when it succeeds
getEnvConfig(cached, env) ==
  IF cached # Null THEN [ok |-> TRUE, error |-> NoError, cached |-> cached]
  ELSE LET parsed == ConfigParse(env)
       IN  [ok |-> parsed.ok, error |-> parsed.error,
            cached |-> IF parsed.ok THEN Obj(env) ELSE Null]

ConfigComplete ==
  [email |-> Str(<<"test", "@", "example.com">>), password |-> Str(<<"secret">>),
   mfaSecret |-> Undefined]

ConfigNoEmail == [ConfigComplete EXCEPT !.email = Undefined]

ConfigNoPassword == [ConfigComplete EXCEPT !.password = Undefined]

Configs == {ConfigComplete, ConfigNoEmail, ConfigNoPassword}

-----------------------------------------------------------------------------
(* Authentication gate *)

ForbiddenHint == <<"AUTH ERROR: Invalid email/password combination.">>

UnauthorizedHint == <<"AUTH ERROR: Unauthorized - verify your MonarchMoney credentials.">>

RateLimitedHint == <<"RATE LIMITED: Too many login attempts. Please wait before retrying.">>

MfaHint ==
  <<"MFA ERROR: Multi-Factor Authentication required. Configure your TOTP secret.">>

NetworkHint == <<"NETWORK ERROR: Unable to connect to MonarchMoney servers.">>

LoginFailedPrefix == "LOGIN FAILED: "

LoginHints == {ForbiddenHint, UnauthorizedHint, RateLimitedHint, MfaHint, NetworkHint}

\* index.ts: the catch block of ensureAuthenticated
ClassifyLoginFailure(message) ==
  McpError("InternalError",
    IF Includes(message, <<"Forbidden">>) THEN ForbiddenHint
    ELSE IF Includes(message, <<"401">>) THEN UnauthorizedHint
    ELSE IF Includes(message, <<"429">>) THEN RateLimitedHint
    ELSE IF Includes(ToLowerCase(message), <<"mfa">>) \/ Includes(ToLowerCase(message), <<"totp">>)
    THEN MfaHint
    ELSE IF \/ Includes(ToLowerCase(message), <<"network">>)
            \/ Includes(ToLowerCase(message), <<"timeout">>)
    THEN NetworkHint
    ELSE <<LoginFailedPrefix>> \o (IF message # << >> THEN message ELSE <<"Unknown error">>))

AuthenticationFailedPrefix == "MonarchMoney authentication failed: "

\* createServer.ts: the catch block of ensureAuthenticated
ClassifyLoginFailureCS(message) ==
  LET hint ==
        IF Includes(message, <<"Forbidden">>) \/ Includes(message, <<"401">>)
        THEN <<"Invalid credentials. Please verify your email, password, and MFA settings.">>
        ELSE IF Includes(message, <<"429">>)
        THEN <<"Rate limited. Please wait before retrying.">>
        ELSE IF Includes(ToLowerCase(message), <<"network">>)
        THEN <<"Network error. Check your internet connection.">>
        ELSE << >>
  IN  Error(<<AuthenticationFailedPrefix>> \o message \o
            (IF hint # << >> THEN <<" (">> \o hint \o <<")">> ELSE << >>))

CredentialsRequired ==
  Error(<<"MonarchMoney credentials are required. ",
          "Please configure email and password in the server settings.">>)

\* a gate that forgets it has logged in
NeverAuthenticated(flag) == FALSE

\* a gate that sets its flag whatever the login's outcome
FlagAlwaysSet(flag, succeeded) == TRUE

\* if (isAuthenticated) return
AlreadyAuthenticated(flag) == flag

\* a gate whose flag is the outcome of the last login attempt
FlagOfLastAttempt(flag, succeeded) == succeeded

\* the flag after a login attempt has settled
FlagAfterLogin(flag, succeeded) == flag \/ succeeded

\* ensureAuthenticated up to its await: it returns at once, fails, or calls
\* login
GateStart(v, flag, cfg, cached) ==
  IF AlreadyAuthenticated(flag)
  THEN [step |-> "pass", error |-> NoError, cached |-> cached]
  ELSE IF v = "createServer"
  THEN IF ~Truthy(cfg.email) \/ ~Truthy(cfg.password)
       THEN [step |-> "error", error |-> CredentialsRequired, cached |-> cached]
       ELSE [step |-> "login", error |-> NoError, cached |-> cached]
  ELSE LET env == getEnvConfig(cached, cfg)
       IN  IF env.ok
           THEN [step |-> "login", error |-> NoError, cached |-> env.cached]
           ELSE [step |-> "error", error |-> ClassifyLoginFailure(env.error.message),
                 cached |-> env.cached]

\* the error ensureAuthenticated throws when login rejects with the message
GateRejection(v, message) ==
  IF v = "createServer" THEN ClassifyLoginFailureCS(message)
  ELSE ClassifyLoginFailure(message)

-----------------------------------------------------------------------------
(* Responses of the external service *)

mockAccounts ==
  Arr(<< Obj([id |-> Str(<<"1">>), displayName |-> Str(<<"Checking">>),
              currentBalance |-> Num(100)]),
         Obj([id |-> Str(<<"2">>), displayName |-> Str(<<"Savings">>),
              currentBalance |-> Num(250)]) >>)

\* what an operation of the client resolves with
MockResult(call) ==
  IF call.methodName = <<"get", "All">> \/ call.methodName = <<"accounts", "_", "get", "All">>
  THEN mockAccounts
  ELSE IF call.methodName = <<"get", "ById">> THEN mockAccounts.v[1]
  ELSE IF call.methodName = <<"get", "Transactions">>
  THEN Obj([transactions |->
              Arr(<< Obj([id |-> Str(<<"t1">>), amount |-> Num(0 - 20),
                          date |-> Str(<<"2024", "-", "0", "2", "-", "0", "1">>),
                          category |-> Obj([name |-> Str(<<"Shopping">>)])]) >>)])
  ELSE IF call.methodName = <<"smart", "Query">>
  THEN Obj([transactions |-> Arr(<< Obj([id |-> Str(<<"t1">>)]) >>)])
  ELSE IF call.methodName = <<"get", "Budgets">> THEN Arr(<< >>)
  ELSE IF call.methodName = <<"get", "_", "me">>
  THEN Obj([email |-> Str(<<"test", "@", "example.com">>)])
  ELSE Undefined

-----------------------------------------------------------------------------
(* Handlers of the catalog *)

UnsupportedPrefix == "Unsupported tool: "

FailedToExecutePrefix == "Failed to execute "

\* throw new Error(`Unsupported tool: ${toolName}`)
UnsupportedTool(toolName) == Error(<<UnsupportedPrefix>> \o toolName)

\* throw new Error(`Failed to execute ${toolName}: ${message}`)
FailedToExecute(toolName, message) ==
  Error(<<FailedToExecutePrefix>> \o toolName \o <<": ">> \o message)

\* inputSchema.parse(rawArgs ?? {}); index.ts's smart-query handler parses
\* the arguments as they are
ParseInput(tool, raw) ==
  IF tool.kind = "smartQueryNL" THEN SchemaParse(tool.schema, raw)
  ELSE SchemaParse(tool.schema, OrEmptyObject(raw))

\* a handler that does not validate its input
ValidationNeverFails(tool, raw) == FALSE

\* the parse throws
ValidationFails(tool, raw) == ~ParseInput(tool, raw).ok

InvalidInput == ZodError(<<"invalid input">>)

\* the calls a summary handler makes, in order
SummaryCalls(toolName, args, now) ==
  IF toolName = SummaryToolNames[1] THEN SpendingCalls(args, now)
  ELSE IF toolName = SummaryToolNames[2]
  THEN [error |-> NoError, calls |-> << Call("accounts", <<"get", "All">>, << >>) >>]
  ELSE IF toolName = BudgetVarianceName
  THEN [error |-> NoError,
        calls |-> << Call("budgets", <<"get", "Budgets">>,
                          << Obj([month |-> Str(SpendingMonth(args, now))]) >>) >>]
  ELSE [error |-> NoError,
        calls |-> << Call("accounts", <<"get", "All">>, << >>),
                     Call("transactions", <<"get", "Transactions">>,
                          << Obj([limit |-> Num(100)]) >>) >>]

\* the calls the handler makes once the gate has let it pass, with the
\* error it throws before making them, if any
HandlerCalls(c, tool, args, now) ==
  IF tool.kind = "generated"
  THEN IF ~Callable(c, tool.moduleName, tool.methodName)
       THEN [error |-> UnsupportedTool(tool.name), calls |-> << >>]
       ELSE [error |-> NoError,
             calls |-> << Call(tool.moduleName, tool.methodName,
                               adaptArguments(tool.name, args, now)) >>]
  ELSE IF tool.kind = "generatedCS"
  THEN IF ~Callable(c, tool.moduleName, tool.methodName)
       THEN [error |-> FailedToExecute(tool.name, UnsupportedTool(tool.name).message),
             calls |-> << >>]
       ELSE [error |-> NoError,
             calls |-> << Call(tool.moduleName, tool.methodName,
                               adaptArgumentsCS(tool.name, args, now)) >>]
  ELSE IF tool.kind = "smartQuery"
  THEN [error |-> NoError,
        calls |-> << IF Callable(c, "transactions", <<"smart", "Query">>)
                     THEN Call("transactions", <<"smart", "Query">>, << Get(args, "query") >>)
                     ELSE Call("transactions", <<"get", "Transactions">>,
                               << Obj([search |-> Get(args, "query"),
                                       limit |-> Num(25)]) >>) >>]
  ELSE IF tool.kind = "smartQueryNL"
  THEN [error |-> NoError,
        calls |-> << Call("transactions", <<"get", "Transactions">>,
                          << Obj(SmartTransactionArgs(Get(args, "query").v, now)) >>) >>]
  ELSE SummaryCalls(tool.name, args, now)

\* how many of the calls are made before one hits a member that is not a
\* function
CallsMade(c, calls) ==
  LET bad == {i \in 1..Len(calls) : ~Callable(c, calls[i].moduleName, calls[i].methodName)}
  IN  IF bad = {} THEN Len(calls) ELSE (CHOOSE i \in bad : \A j \in bad : i <= j) - 1

\* a budget-variance handler with no catch block
CatchesNothing(tool) == FALSE

\* the budget-variance handler catches what its body throws
CatchesFailure(tool) == tool.kind = "summary" /\ tool.name = BudgetVarianceName

\* what the handler throws when the call it awaits rejects with the message
HandlerRejection(tool, message) ==
  IF tool.kind \in {"generated", "generatedCS"} THEN FailedToExecute(tool.name, message)
  ELSE Error(message)

\* what the handler does with the results of its calls
HandlerResult(tool, args, results, now) ==
  IF tool.kind = "generated"
  THEN [error |-> NoError, text |-> formatMonarchResult(tool.name, results[1], args)]
  ELSE IF tool.kind = "generatedCS"
  THEN [error |-> NoError, text |-> formatResult(tool.name, results[1], args)]
  ELSE IF tool.kind = "smartQuery"
  THEN LET listed == Prop(results[1], "transactions")
           transactions == IF listed.t \in {"undefined", "null"} THEN results[1] ELSE listed
       IN  [error |-> NoError, text |-> formatMonarchResult(tool.name, transactions, args)]
  ELSE IF tool.kind = "smartQueryNL"
  THEN IF results[1].t \in {"undefined", "null"}
       THEN [error |-> TypeError(<<"Cannot read properties of undefined">>), text |-> << >>]
       ELSE [error |-> NoError,
             text |-> formatMonarchResult(tool.name,
                                          Or(Prop(results[1], "transactions"), Arr(<< >>)),
                                          args)]
  ELSE IF tool.name = SummaryToolNames[1] THEN SpendingText(args, results[1], now)
  ELSE IF tool.name = SummaryToolNames[2] THEN BalanceTrendsText(args, results[1])
  ELSE IF tool.name = BudgetVarianceName
  THEN [error |-> NoError, text |-> BudgetVarianceText(results[1])]
  ELSE QuickStatsText(results[1], results[2], now)

\* index.ts CallTool: throw new McpError(InternalError, `Tool ${name} failed: ${message}`)
ToolFailed(name, message) ==
  McpError("InternalError", <<"Tool ">> \o name \o <<" failed: ">> \o message)

\* index.ts CallTool: throw new McpError(MethodNotFound, `Unknown tool: ${name}`)
UnknownTool(name) == McpError("MethodNotFound", <<"Unknown tool: ">> \o name)

-----------------------------------------------------------------------------
(* Inputs of the model *)

\* arguments that satisfy every schema of the catalog
GoodArguments ==
  Obj([id |-> Str(<<"1">>),
       query |-> Str(<<"last", " ", "3", " ", "Amazon", " ", "purchases">>),
       limit |-> Num(500),
       month |-> Str(<<"2024", "-", "0", "1">>),
       verbosity |-> Str(<<"brief">>)])

\* arguments that fail every schema that has a field
BadArguments ==
  Obj([id |-> Num(7), query |-> Num(7), limit |-> Num(0), month |-> Num(7),
       period |-> Str(<<"year">>), verbosity |-> Str(<<"loud">>)])

RawInputs == {Undefined, GoodArguments, BadArguments}

\* messages the login operation rejects with
LoginMessages == {<<"Forbidden">>, <<"boom">>}

\* messages a data operation rejects with
CallMessages == {<<"boom">>}

\* a name no catalog has
UnknownName == <<"accounts", "_", "remove", "All">>

\* the members the environment may turn into plain values
RemovableMembers == {<<"accounts", <<"get", "All">>>>}

-----------------------------------------------------------------------------
(* Invocations *)

IdleSlot ==
  [pc |-> "idle", name |-> << >>, tool |-> 0, raw |-> Undefined, args |-> EmptyRecord,
   gate |-> FALSE, login |-> "none", attempt |-> 0, authed |-> FALSE,
   calls |-> << >>, pending |-> {}, results |-> << >>, rejection |-> << >>,
   herr |-> NoError, err |-> NoError, content |-> << >>]

Busy(slot) == slot.pc \in {"login", "call"}

\* the slot a new invocation takes: the first one with no handler running
FreeSlot(h) == ~Busy(inv[h]) /\ \A g \in Handlers : g < h => Busy(inv[g])

\* the handler returns { content: [{ type: "text", text }] }
Done(slot, text) == [slot EXCEPT !.pc = "done", !.content = text, !.pending = {}]

\* the handler rejects; index.ts's dispatcher wraps what it rejects with
Failed(v, slot, e) ==
  [slot EXCEPT !.pc = "failed", !.herr = e, !.pending = {},
               !.err = IF v = "index" THEN ToolFailed(slot.name, e.message) ELSE e]

\* the handler starts the calls of its plan: it throws what the plan
\* throws, stops at the first member that is not a function, or awaits
StartCalls(v, slot, tool, plan, made) ==
  IF plan.error # NoError THEN Failed(v, slot, plan.error)
  ELSE IF made < Len(plan.calls)
  THEN IF CatchesFailure(tool)
       THEN Done([slot EXCEPT !.calls = SubSeq(plan.calls, 1, made)], BudgetUnavailableText)
       ELSE Failed(v, [slot EXCEPT !.calls = SubSeq(plan.calls, 1, made)],
                   NotAFunction(plan.calls[made + 1].moduleName,
                                plan.calls[made + 1].methodName))
  ELSE [slot EXCEPT !.pc = "call", !.calls = plan.calls,
                    !.pending = 1..Len(plan.calls),
                    !.results = [i \in 1..Len(plan.calls) |-> Undefined]]

\* the plan of the handler, then its start
PlanCalls(v, c, slot, tool, plan) == StartCalls(v, slot, tool, plan, CallsMade(c, plan.calls))

\* the handler after ensureAuthenticated has returned: target lookup,
\* argument adaptation and the start of the external calls
Proceed(v, c, waiting, now) ==
  PlanCalls(v, c, [waiting EXCEPT !.authed = TRUE], toolDefinitions[waiting.tool],
            HandlerCalls(c, toolDefinitions[waiting.tool], waiting.args, now))

\* tool.handler(raw) up to its first await that does not settle at once
\* await ensureAuthenticated(): the handler goes on, fails, or waits for
\* the login it has started
EnterGate(h, parsed, gate) ==
  /\ cachedConfig' = gate.cached
  /\ IF gate.step = "pass"
     THEN /\ inv' = [inv EXCEPT ![h] = Proceed(variant, client, parsed, Today)]
          /\ UNCHANGED logins
     ELSE IF gate.step = "error"
     THEN /\ inv' = [inv EXCEPT ![h] = Failed(variant, parsed, gate.error)]
          /\ UNCHANGED logins
     ELSE /\ inv' = [inv EXCEPT ![h] = [parsed EXCEPT !.pc = "login", !.login = "pending",
                                                     !.attempt = Len(logins) + 1]]
          /\ logins' = Append(logins, "pending")

StartHandler(h, i, name, raw) ==
  IF ValidationFails(toolDefinitions[i], raw)
  THEN /\ inv' = [inv EXCEPT ![h] =
                     Failed(variant, [IdleSlot EXCEPT !.name = name, !.tool = i, !.raw = raw],
                            InvalidInput)]
       /\ UNCHANGED <<cachedConfig, logins>>
  ELSE EnterGate(h, [IdleSlot EXCEPT !.name = name, !.tool = i, !.raw = raw, !.gate = TRUE,
                                     !.args = ParseInput(toolDefinitions[i], raw).value],
                 GateStart(variant, isAuthenticated, config, cachedConfig))

\* index.ts: the CallTool request handler
CallTool(h, name, raw) ==
  /\ variant = "index"
  /\ started < MaxInvocations
  /\ FreeSlot(h)
  /\ started' = started + 1
  /\ LET i == toolsMapGet(toolDefinitions, name)
     IN  IF i = 0
         THEN /\ inv' = [inv EXCEPT ![h] = [IdleSlot EXCEPT !.pc = "failed", !.name = name,
                                                            !.raw = raw,
                                                            !.err = UnknownTool(name)]]
              /\ UNCHANGED <<cachedConfig, logins>>
         ELSE StartHandler(h, i, name, OrEmptyObject(raw))
  /\ UNCHANGED <<trial, variant, config, client, toolDefinitions, isAuthenticated>>

\* createServer.ts: a handler of transportServer.tools is called
DirectCall(h, i, raw) ==
  /\ variant = "createServer"
  /\ started < MaxInvocations
  /\ FreeSlot(h)
  /\ started' = started + 1
  /\ StartHandler(h, i, toolDefinitions[i].name, raw)
  /\ UNCHANGED <<trial, variant, config, client, toolDefinitions, isAuthenticated>>

\* monarchClient.login resolves: the flag is set and the handler goes on
LoginResolves(h) ==
  /\ inv[h].pc = "login"
  /\ isAuthenticated' = FlagAfterLogin(isAuthenticated, TRUE)
  /\ logins' = [logins EXCEPT ![inv[h].attempt] = "ok"]
  /\ inv' = [inv EXCEPT ![h] = Proceed(variant, client, [inv[h] EXCEPT !.login = "ok"], Today)]
  /\ UNCHANGED <<trial, variant, config, cachedConfig, client, toolDefinitions, started>>

\* monarchClient.login rejects: the gate throws the classified error
LoginRejects(h, message) ==
  /\ inv[h].pc = "login"
  /\ isAuthenticated' = FlagAfterLogin(isAuthenticated, FALSE)
  /\ inv' = [inv EXCEPT ![h] = Failed(variant, [inv[h] EXCEPT !.login = "failed"],
                                      GateRejection(variant, message))]
  /\ logins' = [logins EXCEPT ![inv[h].attempt] = "failed"]
  /\ UNCHANGED <<trial, variant, config, cachedConfig, client, toolDefinitions, started>>

\* the handler returns the text or throws the error; the budget-variance
\* handler catches the error
Settle(v, tool, slot, res) ==
  IF res.error = NoError THEN Done(slot, res.text)
  ELSE IF CatchesFailure(tool) THEN Done(slot, BudgetUnavailableText)
  ELSE Failed(v, slot, res.error)

\* the handler goes on when the last of its calls has resolved
Resolved(v, tool, slot, now) ==
  IF slot.pending # {} THEN slot
  ELSE Settle(v, tool, slot, HandlerResult(tool, slot.args, slot.results, now))

\* results kept in the order in which the calls complete
ArrivalSlot(slot, k) == Len(slot.calls) - Cardinality(slot.pending) + 1

\* Promise.all and await keep each result at the position of its call
ResultSlot(slot, k) == k

\* a data operation resolves; with the last one the handler formats
CallResolves(h, k) ==
  /\ inv[h].pc = "call"
  /\ k \in inv[h].pending
  /\ inv' = [inv EXCEPT ![h] =
                Resolved(variant, toolDefinitions[inv[h].tool],
                         [inv[h] EXCEPT !.pending = @ \ {k},
                                        !.results[ResultSlot(inv[h], k)] =
                                           MockResult(inv[h].calls[k])],
                         Today)]
  /\ UNCHANGED <<trial, variant, config, cachedConfig, client, toolDefinitions, isAuthenticated,
                 logins, started>>

\* a data operation rejects
CallRejects(h, k, message) ==
  /\ inv[h].pc = "call"
  /\ k \in inv[h].pending
  /\ LET tool == toolDefinitions[inv[h].tool]
         slot == [inv[h] EXCEPT !.rejection = message]
     IN  inv' = [inv EXCEPT ![h] =
                   IF CatchesFailure(tool) THEN Done(slot, BudgetUnavailableText)
                   ELSE Failed(variant, slot, HandlerRejection(tool, message))]
  /\ UNCHANGED <<trial, variant, config, cachedConfig, client, toolDefinitions, isAuthenticated,
                 logins, started>>

\* the member stays on the object but is no longer a function
RemoveMember(c, moduleName, methodName) ==
  LET plain(members) ==
        [i \in 1..Len(members) |->
           IF members[i].name = methodName THEN Val(methodName) ELSE members[i]]
  IN  [c EXCEPT !.mods[moduleName] =
         Object(plain(c.mods[moduleName].proto), plain(c.mods[moduleName].own))]

\* the environment replaces an operation of the client after the catalog
\* was built
MemberRemoved(member) ==
  /\ Callable(client, member[1], member[2])
  /\ client' = RemoveMember(client, member[1], member[2])
  /\ UNCHANGED <<trial, variant, config, cachedConfig, toolDefinitions, isAuthenticated,
                 logins, started, inv>>

Variants == {"index", "createServer"}

\* the server takes requests: no function is applied on its own
NoTrial == [kind |-> "none"]

Init ==
  /\ variant \in Variants
  /\ config \in Configs
  /\ cachedConfig = Null
  /\ client \in Clients
  /\ toolDefinitions = CatalogOf(variant, client)
  /\ isAuthenticated = FALSE
  /\ logins = << >>
  /\ started = 0
  /\ inv = [h \in Handlers |-> IdleSlot]
  /\ trial = NoTrial

CatalogNames == {toolDefinitions[i].name : i \in 1..Len(toolDefinitions)}

Next ==
  \/ \E h \in Handlers, name \in CatalogNames \cup {UnknownName}, raw \in RawInputs :
       CallTool(h, name, raw)
  \/ \E h \in Handlers, i \in 1..Len(toolDefinitions), raw \in RawInputs :
       DirectCall(h, i, raw)
  \/ \E h \in Handlers : LoginResolves(h)
  \/ \E h \in Handlers, message \in LoginMessages : LoginRejects(h, message)
  \/ \E h \in Handlers, k \in 1..2 : CallResolves(h, k)
  \/ \E h \in Handlers, k \in 1..2, message \in CallMessages : CallRejects(h, k, message)
  \/ \E member \in RemovableMembers : MemberRemoved(member)

Spec == Init /\ [][Next]_vars

-----------------------------------------------------------------------------
(* Applications of the pure functions.  A trial is one application: for a  *)
(* tool, the steps of its handler that touch neither the gate nor the      *)
(* external service (schema derivation, validation, argument adaptation).  *)

\* the variables of the server, which no trial touches
server == <<variant, config, cachedConfig, client, toolDefinitions,
            isAuthenticated, logins, started, inv>>

\* the two copies of the deriver and the adapter
Copies == {"tools", "createServer"}

\* groups of the client, and "client" for its top-level operations
TrialModules == {"accounts", "transactions", "budgets", "client"}

\* operation names: those the source names, and names that satisfy several
\* rules of the deriver
MethodNames ==
  { <<"get", "All">>, <<"get", "ById">>, <<"get", "Balance", "History">>,
    <<"get", "NetWorth", "History">>, <<"get", "Transactions">>,
    <<"get", "Transaction", "Details">>, <<"get", "Transactions", "Summary">>,
    <<"get", "Budgets">>, <<"get", "_", "me">>,
    <<"update", "ById">>, <<"get", "Transactions", "ById">>,
    <<"create", "Transactions">>, <<"update", "History">>,
    <<"update", "Or", "create">>, <<"get", "All", "update", "s">>,
    <<"get", "Spending", "OverTime">>, <<"update", "Transaction">>,
    <<"create", "Transaction">>, <<"delete", "Transaction">>,
    <<"get", "Transactions", "History">>, <<"update", "OverTime">> }

\* what a caller passes to a handler
TrialInputs ==
  { Undefined,
    Obj(EmptyRecord),
    Obj([limit |-> Num(500)]),
    Obj([limit |-> Num(101), search |-> Str(<<"coffee">>)]),
    Obj([limit |-> Num(100)]),
    Obj([limit |-> Num(7), startDate |-> Str(<<"2024", "-", "0", "1", "-", "0", "1">>)]),
    Obj([limit |-> Num(500), startDate |-> Str(<< >>)]),
    Obj([limit |-> Num(0)]),
    Obj([id |-> Str(<<"abc">>)]),
    Obj([id |-> Str(<<"abc">>), limit |-> Num(500), data |-> Obj(EmptyRecord)]),
    Obj([id |-> Num(7)]),
    Obj([transactionId |-> Str(<<"t1">>)]) }

\* instants: the pinned system time, a day after a leap February, and
\* instants in zones east and west of UTC, one of them within thirty days
\* of the end of daylight saving time
Clocks ==
  { Today,
    [y |-> 2024, m |-> 3, d |-> 1, minute |-> 720, offset |-> 0, offsetBefore |-> 0],
    [y |-> 2024, m |-> 1, d |-> 15, minute |-> 1410, offset |-> 60, offsetBefore |-> 60],
    [y |-> 2024, m |-> 11, d |-> 21, minute |-> 30, offset |-> -300, offsetBefore |-> -240] }

ToolTrials ==
  { [kind |-> "tool", copy |-> c, moduleName |-> g, methodName |-> n, raw |-> r, now |-> t,
     stage |-> "input", schema |-> "none", args |-> EmptyRecord, callArgs |-> << >>,
     formatterArgs |-> EmptyRecord] :
      c \in Copies, g \in TrialModules, n \in MethodNames, r \in TrialInputs, t \in Clocks }

\* buildToolDefinition: const inputSchema = generateInputSchema(moduleName, methodName)
DeriveSchema ==
  /\ trial.kind = "tool"
  /\ trial.stage = "input"
  /\ trial' = [trial EXCEPT
       !.stage = "derived",
       !.schema = IF trial.copy = "tools"
                  THEN generateInputSchema(trial.moduleName, trial.methodName)
                  ELSE generateInputSchemaCS(trial.moduleName, trial.methodName)]
  /\ UNCHANGED server

\* the handler: const args = inputSchema.parse(rawArgs ?? {})
Validate ==
  /\ trial.kind = "tool"
  /\ trial.stage = "derived"
  /\ LET parsed == SchemaParse(trial.schema, OrEmptyObject(trial.raw))
     IN  trial' = [trial EXCEPT !.stage = IF parsed.ok THEN "validated" ELSE "rejected",
                                !.args = parsed.value]
  /\ UNCHANGED server

\* the handler: const callArgs = adaptArguments(toolName, args)
Adapt ==
  /\ trial.kind = "tool"
  /\ trial.stage = "validated"
  /\ LET toolName == ToolName(trial.moduleName, trial.methodName)
     IN  trial' = [trial EXCEPT
           !.stage = "adapted",
           !.callArgs = IF trial.copy = "tools"
                        THEN adaptArguments(toolName, trial.args, trial.now)
                        ELSE adaptArgumentsCS(toolName, trial.args, trial.now),
           !.args = ArgsAfterAdapt(trial.args,
                                   IF trial.copy = "tools"
                                   THEN adaptArguments(toolName, trial.args, trial.now)
                                   ELSE adaptArgumentsCS(toolName, trial.args, trial.now),
                                   trial.now)]
  /\ UNCHANGED server

\* the handler: formatFn(toolName, response, args) receives the input object
PassToFormatter ==
  /\ trial.kind = "tool"
  /\ trial.stage = "adapted"
  /\ trial' = [trial EXCEPT !.stage = "responded", !.formatterArgs = trial.args]
  /\ UNCHANGED server

\* the longest result list of a trial: one more than the largest display cap
MaxItems == 26

\* list lengths at and around the display caps 10, 15, 20 and 25
ListLengths == {0, 1, 3, 10, 11, 15, 16, 20, 21, MaxItems}

AmountPatterns == {"rising", "ties", "mixed"}

\* the amount of the j-th of n items
AmountAt(pattern, j, n) ==
  CASE pattern = "rising" -> IF j % 2 = 0 THEN -(10 * j) ELSE 10 * j
    [] pattern = "ties" -> 5 * (j % 3)
    [] pattern = "mixed" -> IF j % 2 = 0 THEN -(7 * (n - j)) ELSE 3 * j

\* the name of the j-th item, one token
ItemName(j) == "item" \o ToString(j)

\* an entity of the external service: read as an account, a transaction, a
\* category or a budget line by the renderer the tool key selects
Item(j, amount) ==
  Obj([id |-> Str(<<"id" \o ToString(j)>>),
       name |-> Str(<<ItemName(j)>>),
       merchantName |-> Str(<<ItemName(j)>>),
       amount |-> Num(amount),
       currentBalance |-> Num(100 * j),
       budgeted |-> Num(200),
       actual |-> Num(10 * j)])

ItemList(n, pattern) == [j \in 1..n |-> Item(j, AmountAt(pattern, j, n))]

\* the sort directive of the smart-query handler, attached to the array
SortTags == {"none", "desc", "asc"}

\* (transactions as any)._smartQueryArgs = parsedArgs
Tagged(items, tag) ==
  IF tag = "none" THEN Arr(items)
  ELSE [t |-> "array", v |-> items,
        _smartQueryArgs |-> Obj(("_sortByAmount" :> Str(<<tag>>)))]

\* results of the external operations
TrialResults ==
  { Str(<< >>), Str(<<"hello">>), Undefined, Null, Num(0),
    Obj([totalIncome |-> Num(5000), totalExpenses |-> Num(1234)]) }
  \cup { Tagged(ItemList(n, p), tag) : n \in ListLengths, p \in AmountPatterns, tag \in SortTags }

\* the validated input the handler passes as originalArgs
TrialArgs ==
  { EmptyRecord,
    [verbosity |-> Str(<<"brief">>)],
    [verbosity |-> Str(<<"summary">>)],
    [verbosity |-> Str(<<"detailed">>)],
    [verbosity |-> Str(<<"detailed">>), _sortByAmount |-> Str(<<"desc">>)] }

\* tool keys, one for each renderer and one summary tool
TrialToolNames ==
  { <<"accounts", "_", "get", "All">>,
    <<"transactions", "_", "get", "Transactions">>,
    SmartQueryName,
    <<"categories", "_", "get", "Categories">>,
    <<"budgets", "_", "get", "Budgets">>,
    <<"institutions", "_", "get", "Institutions">>,
    BudgetVarianceName }

\* the formatter of tools.ts and createServer.ts, and that of formatters/monarch.ts
Formatters == {"tools", "monarch"}

FormatTrials ==
  { [kind |-> "format", formatter |-> f, toolName |-> k, given |-> r, args |-> a,
     stage |-> "input", result |-> r, text |-> << >>] :
      f \in Formatters, k \in TrialToolNames, r \in TrialResults, a \in TrialArgs }

\* the handler: text: formatFn(toolName, response, args).  given is the
\* result as the external operation returned it, result the same object
\* after the call
Format ==
  /\ trial.kind = "format"
  /\ trial.stage = "input"
  /\ trial' = [trial EXCEPT
       !.stage = "formatted",
       !.text = IF trial.formatter = "tools"
                THEN formatResult(trial.toolName, trial.given, trial.args)
                ELSE formatMonarchResult(trial.toolName, trial.given, trial.args),
       !.result = IF trial.formatter = "tools"
                  THEN trial.given
                  ELSE ResultAfterFormat(trial.toolName, trial.given, trial.args)]
  /\ UNCHANGED server

\* a query without an amount phrase
NoThreshold == [direction |-> "none", x |-> -1]

\* phrases of a free-text query: a count, a merchant and an amount threshold
CountPhrases ==
  { [text |-> <<"last", " ", "3">>, n |-> 3],
    [text |-> <<"Last", " ", "100">>, n |-> 100],
    [text |-> <<"last", " ", "101">>, n |-> 101] }

MerchantPhrases ==
  { [text |-> <<"amazon">>, search |-> <<"amazon">>],
    [text |-> <<"Amazon", " ", "purchases">>, search |-> <<"amazon">>],
    [text |-> <<"starbucks", " ", "charges">>, search |-> <<"starbucks">>] }

AmountPhrases ==
  { [text |-> <<"over", " ", "$", "10">>, x |-> 10],
    [text |-> <<"over", " ", "$", "1", ",", "000">>, x |-> 1000],
    [text |-> <<"Over", " ", "25">>, x |-> 25] }

\* the orders in which a query puts its count, its merchant and its amount
PhraseOrders == {<<1, 2, 3>>, <<1, 3, 2>>, <<2, 1, 3>>, <<2, 3, 1>>, <<3, 1, 2>>, <<3, 2, 1>>}

\* queries with one phrase of each kind and nothing else
ThreePhraseQueries ==
  { [kind |-> "query", query |-> Join([i \in 1..3 |-> <<c.text, m.text, a.text>>[o[i]]], <<" ">>),
     count |-> c.n, search |-> m.search, over |-> a.x, order |-> o,
     threshold |-> [direction |-> "over", x |-> a.x],
     stage |-> "input", parsedArgs |-> EmptyRecord, transactionArgs |-> EmptyRecord] :
      c \in CountPhrases, m \in MerchantPhrases, a \in AmountPhrases, o \in PhraseOrders }

\* queries with a date or a sort phrase, or with no phrase at all
OtherQueries ==
  { [kind |-> "query", query |-> q, count |-> -1, search |-> << >>, over |-> -1,
     order |-> << >>, threshold |-> NoThreshold,
     stage |-> "input", parsedArgs |-> EmptyRecord, transactionArgs |-> EmptyRecord] :
      q \in { <<"biggest", " ", "transactions", " ", "this", " ", "month">>,
              <<"5", " ", "smallest", " ", "uber", " ", "rides", " ", "last", " ", "month">>,
              <<"everything">> } }

\* the amount phrases of both directions
ThresholdPhrases ==
  { [text |-> <<"over", " ", "$", "10">>, direction |-> "over", x |-> 10],
    [text |-> <<"Above", " ", "25">>, direction |-> "over", x |-> 25],
    [text |-> <<"more", " ", "than", " ", "$", "1", ",", "000">>, direction |-> "over", x |-> 1000],
    [text |-> <<"under", " ", "$", "40">>, direction |-> "under", x |-> 40],
    [text |-> <<"Below", " ", "5">>, direction |-> "under", x |-> 5],
    [text |-> <<"less", " ", "than", "$", "2", ",", "500">>, direction |-> "under", x |-> 2500] }

\* the words before and after the amount phrase; none of them, with the
\* digits that may follow it, is an amount phrase
WordsBefore ==
  { << >>, <<"fuel", " ">>, <<"Starbucks", " ", "charges", " ">>,
    <<"largest", " ", "purchases", " ">> }

WordsAfter ==
  { << >>, <<" ", "this", " ", "week">>, <<" ", "over", " ", "the", " ", "weekend">>,
    <<" ", "above", " ", "average">>, <<" ", "under", " ", "warranty">> }

\* queries with one amount phrase among other words
ThresholdQueries ==
  { [kind |-> "query", query |-> b \o t.text \o a, count |-> -1, search |-> << >>,
     over |-> -1, order |-> << >>, threshold |-> [direction |-> t.direction, x |-> t.x],
     stage |-> "input", parsedArgs |-> EmptyRecord, transactionArgs |-> EmptyRecord] :
      b \in WordsBefore, t \in ThresholdPhrases, a \in WordsAfter }

\* count phrases of both forms, with counts of 0, within and above 100
CountOnlyPhrases ==
  { [text |-> <<"last", " ", "0", " ", "transactions">>, n |-> 0],
    [text |-> <<"last", " ", "1", " ", "purchase">>, n |-> 1],
    [text |-> <<"top", " ", "100">>, n |-> 100],
    [text |-> <<"first", " ", "101", " ", "transactions">>, n |-> 101],
    [text |-> <<"recent", " ", "250">>, n |-> 250],
    [text |-> <<"7", " ", "recent", " ", "transactions">>, n |-> 7],
    [text |-> <<"0", " ", "top", " ", "charges">>, n |-> 0],
    [text |-> <<"show", " ", "Last", " ", " ", "42">>, n |-> 42] }

\* queries with a count phrase and nothing else
CountQueries ==
  { [kind |-> "query", query |-> c.text, count |-> c.n, search |-> << >>, over |-> -1,
     order |-> <<1>>, threshold |-> NoThreshold,
     stage |-> "input", parsedArgs |-> EmptyRecord, transactionArgs |-> EmptyRecord] :
      c \in CountOnlyPhrases }

QueryTrials == ThreePhraseQueries \cup OtherQueries \cup ThresholdQueries \cup CountQueries

\* handleSmartTransactionQuery: the filter built from the parsed fields
BuildFilter ==
  /\ trial.kind = "query"
  /\ trial.stage = "parsed"
  /\ trial' = [trial EXCEPT !.stage = "sent",
                            !.transactionArgs = QueryFilter(trial.parsedArgs, trial.query)]
  /\ UNCHANGED server

\* handleSmartTransactionQuery: const parsedArgs = parseNaturalLanguageQuery(query)
ParseQuery ==
  /\ trial.kind = "query"
  /\ trial.stage = "input"
  /\ trial' = [trial EXCEPT !.stage = "parsed",
                            !.parsedArgs = parseNaturalLanguageQuery(trial.query, Today)]
  /\ UNCHANGED server

\* own members that shadow the prototype's, a group the builder does not
\* know, private members and values next to operations
ClientShadowed ==
  [mods |-> [accounts |-> Object(<<Ctor, Fn(<<"get", "All">>), Fn(<<"get", "ById">>)>>,
                                 <<Val(<<"get", "All">>), Fn(<<"get", "ById">>)>>),
             goals |-> Object(<<Ctor, Fn(<<"get", "Goals">>)>>, << >>),
             insights |-> Object(<< >>, <<Fn(<<"get", "Insights">>), Fn(<<"_", "cache">>),
                                          Val(<<"ttl">>)>>)],
   proto |-> <<Ctor, Fn(<<"login">>), Fn(<<"interactive", "Login">>),
               Fn(<<"_", "request">>), Fn(<<"get", "_", "me">>), Fn(<<"logout">>)>>,
   own |-> <<Fn(<<"get", "_", "me">>), Val(<<"logout">>), Fn(<<"refresh">>)>>]

\* no group the builder knows and no top-level operation but login
ClientBare ==
  [mods |-> [goals |-> Object(<<Ctor, Fn(<<"get", "Goals">>)>>, << >>)],
   proto |-> <<Ctor, Fn(<<"login">>)>>,
   own |-> << >>]

TrialClients == Clients \cup {ClientShadowed, ClientBare}

\* the catalog builders: tools.ts, createServer.ts, and main of index.ts
Builders == {"tools", "createServer", "index"}

CatalogTrials ==
  { [kind |-> "catalog", builder |-> b, client |-> c, stage |-> "input", tools |-> << >>] :
      b \in Builders, c \in TrialClients }

\* createToolDefinitions(monarchClient, ensureAuthenticated, formatFn)
BuildCatalog ==
  /\ trial.kind = "catalog"
  /\ trial.stage = "input"
  /\ trial' = [trial EXCEPT
       !.stage = "built",
       !.tools = IF trial.builder = "tools" THEN createToolDefinitions(trial.client)
                 ELSE CatalogOf(trial.builder, trial.client)]
  /\ UNCHANGED server

\* messages a rejected login carries: status texts in several spellings,
\* messages of two categories, of none, and the empty message
FailureMessages ==
  { <<"Forbidden">>, <<"HTTP ", "403", " ", "forbidden">>, <<"FORBIDDEN">>,
    <<"Request failed with status ", "401">>, <<"429", " Too Many Requests">>,
    <<"MFA", " code required">>, <<"invalid ", "totp", " secret">>, <<"TOTP">>,
    <<"Network", " unreachable">>, <<"connect ", "timeout">>, <<"Timeout">>,
    <<"Forbidden", " after ", "429">>, <<"network", " error ", "401">>,
    <<"boom">>, << >> }

LoginTrials ==
  { [kind |-> "login", copy |-> v, message |-> m, stage |-> "input", error |-> NoError] :
      v \in Variants, m \in FailureMessages }

\* ensureAuthenticated: the catch block runs on the message of the rejection
ClassifyRejection ==
  /\ trial.kind = "login"
  /\ trial.stage = "input"
  /\ trial' = [trial EXCEPT !.stage = "classified",
                            !.error = GateRejection(trial.copy, trial.message)]
  /\ UNCHANGED server

Trials ==
  ToolTrials \cup FormatTrials \cup QueryTrials \cup CatalogTrials \cup LoginTrials

\* a server that takes no request, and one trial
FunctionInit ==
  /\ variant = "index"
  /\ config = ConfigComplete
  /\ cachedConfig = Null
  /\ client = ClientFull
  /\ toolDefinitions = CatalogOf(variant, client)
  /\ isAuthenticated = FALSE
  /\ logins = << >>
  /\ started = 0
  /\ inv = [h \in Handlers |-> IdleSlot]
  /\ trial \in Trials

FunctionNext ==
  \/ DeriveSchema
  \/ Validate
  \/ Adapt
  \/ PassToFormatter
  \/ Format
  \/ ParseQuery
  \/ BuildFilter
  \/ BuildCatalog
  \/ ClassifyRejection

FunctionSpec == FunctionInit /\ [][FunctionNext]_vars

-----------------------------------------------------------------------------
(* Properties *)

\* how many times monarchClient.login has been called
LoginCalls == Len(logins)

ToolOf(h) == toolDefinitions[inv[h].tool]

\* the invocation in slot h runs a handler of the catalog
Handled(h) == inv[h].pc # "idle" /\ inv[h].tool # 0

\* the step starts a new invocation in slot h
Starts(h) == started' = started + 1 /\ FreeSlot(h)

CredentialsMissing == ~Truthy(config.email) \/ ~Truthy(config.password)

\* C1: while no login has succeeded, invocations that reach the gate
\* concurrently start the login operation at most once, so two login calls
\* are never in flight together.
C1_SingleFlightLogin == Cardinality({h \in Handlers : inv[h].pc = "login"}) <= 1

\* C2: once a login has succeeded, no later step calls login again.
C2_NoLoginAfterSuccess == [][isAuthenticated => LoginCalls' = LoginCalls]_vars

\* a second invocation ran after the first had logged in and finished, and
\* went to its external call with login called once in all
C2_Witness ==
  /\ started = 2
  /\ inv[2].pc = "idle"
  /\ inv[1].gate /\ inv[1].login = "none" /\ inv[1].calls # << >>
  /\ logins = <<"ok">>

\* C3: a failed login leaves the flag as it was and fails the invocation
\* before any external call; an invocation that reaches the gate while the
\* flag is false calls login again; when that login succeeds the flag is set
\* and the handler goes on to its external call.
C3_LoginFailureRetry ==
  [][\A h \in Handlers :
       /\ (inv[h].login = "pending" /\ inv'[h].login = "failed")
            => /\ isAuthenticated' = isAuthenticated
               /\ inv'[h].pc = "failed"
               /\ ~inv'[h].authed
               /\ inv'[h].calls = << >>
       /\ (Starts(h) /\ inv'[h].gate /\ ~isAuthenticated /\ ~CredentialsMissing)
            => /\ inv'[h].login = "pending"
               /\ LoginCalls' = LoginCalls + 1
       /\ (inv[h].login = "pending" /\ inv'[h].login = "ok")
            => /\ isAuthenticated'
               /\ inv'[h].authed
               /\ \/ inv'[h].calls # << >>
                  \/ LET plan == HandlerCalls(client, toolDefinitions[inv[h].tool],
                                              inv[h].args, Today)
                     IN  plan.error # NoError \/ CallsMade(client, plan.calls) = 0]_vars

\* the first invocation's login failed; the next one logged in and made its
\* external call
C3_Witness ==
  /\ logins = <<"failed", "ok">>
  /\ inv[2].pc = "idle"
  /\ inv[1].login = "ok" /\ inv[1].attempt = 2
  /\ inv[1].calls # << >>
  /\ isAuthenticated

\* C4: an invocation whose raw input fails the tool's schema fails without
\* the gate having been called and without any operation of the client
\* having been invoked.
C4_ValidationBeforeGate ==
  \A h \in Handlers :
    (Handled(h) /\ ~ParseInput(ToolOf(h), inv[h].raw).ok)
      => /\ inv[h].pc = "failed"
         /\ ~inv[h].gate
         /\ inv[h].login = "none"
         /\ inv[h].calls = << >>
         /\ inv[h].content = << >>

\* a summary tool was invoked with invalid input on a server that could
\* have served it
C4_Witness ==
  \E h \in Handlers :
    /\ Handled(h)
    /\ ToolOf(h).kind = "summary"
    /\ ~ParseInput(ToolOf(h), inv[h].raw).ok
    /\ inv[h].pc = "failed"
    /\ isAuthenticated

\* C5: the catalog never has two tool definitions of the same name.
C5_UniqueToolNames ==
  \A i, j \in 1..Len(toolDefinitions) :
    toolDefinitions[i].name = toolDefinitions[j].name => i = j

\* C6: when the external operation of a generated or smart-query tool
\* rejects with message m, the handler's error names the tool and carries m,
\* and no content is returned.
C6_ExternalFailureTagged ==
  \A h \in Handlers :
    (/\ Handled(h)
     /\ ToolOf(h).kind \in {"generated", "generatedCS", "smartQuery", "smartQueryNL"}
     /\ inv[h].rejection # << >>)
      => /\ inv[h].pc = "failed"
         /\ Includes(inv[h].herr.message, inv[h].name)
         /\ Includes(inv[h].herr.message, inv[h].rejection)
         /\ inv[h].content = << >>

\* C7: a generated tool whose target is no longer a callable member fails
\* with the unsupported-tool error naming the tool, not tagged as an
\* execution failure, and no external operation is invoked.
C7_UnsupportedToolUnwrapped ==
  \A h \in Handlers :
    (/\ Handled(h)
     /\ ToolOf(h).kind \in {"generated", "generatedCS"}
     /\ inv[h].authed
     /\ inv[h].calls = << >>
     /\ ~Callable(client, ToolOf(h).moduleName, ToolOf(h).methodName))
      => /\ inv[h].pc = "failed"
         /\ inv[h].herr.message = <<UnsupportedPrefix>> \o inv[h].name
         /\ ~Includes(inv[h].herr.message, <<FailedToExecutePrefix>>)

\* the messages the classification of a login failure produces
FromLoginClassification(message) ==
  \/ message \in LoginHints
  \/ StartsWith(message, <<LoginFailedPrefix>>)
  \/ StartsWith(message, <<AuthenticationFailedPrefix>>)

\* C8: with email or password missing, the gate fails before login is called
\* and its error does not come from the login-failure classification.
C8_ConfigurationErrorDistinct ==
  \A h \in Handlers :
    (Handled(h) /\ inv[h].gate /\ CredentialsMissing)
      => /\ inv[h].pc = "failed"
         /\ inv[h].login = "none"
         /\ LoginCalls = 0
         /\ ~FromLoginClassification(inv[h].herr.message)

\* C9: a request whose name is not in the catalog fails with method-not-found
\* and runs no handler, no authentication attempt and no external operation.
C9_UnknownToolRejected ==
  \A h \in Handlers :
    (inv[h].pc # "idle" /\ inv[h].name \notin CatalogNames)
      => /\ inv[h].pc = "failed"
         /\ inv[h].err.code = "MethodNotFound"
         /\ inv[h].tool = 0
         /\ ~inv[h].gate
         /\ inv[h].login = "none"
         /\ inv[h].calls = << >>

\* an unknown name was requested of a server that had already logged in
C9_Witness ==
  \E h \in Handlers :
    /\ inv[h].name = UnknownName
    /\ inv[h].pc = "failed"
    /\ isAuthenticated

\* C10: an invocation whose external call rejects ends as a result exactly
\* when the tool is budget_getVarianceSummary, with the fixed text; for every
\* other tool it fails.
C10_OnlyBudgetSwallowsFailure ==
  \A h \in Handlers :
    (Handled(h) /\ inv[h].rejection # << >>)
      => IF inv[h].name = BudgetVarianceName
         THEN inv[h].pc = "done" /\ inv[h].content = BudgetUnavailableText
         ELSE inv[h].pc = "failed" /\ inv[h].content = << >>

\* the budget fetch rejected and the invocation returned the fixed text,
\* after another tool's fetch had rejected and failed its invocation
C10_Witness ==
  /\ inv[2].name = BudgetVarianceName
  /\ inv[2].rejection # << >>
  /\ inv[2].pc = "done"
  /\ inv[1].rejection # << >>
  /\ inv[1].pc = "failed"

-----------------------------------------------------------------------------
(* Properties of the pure functions, under FunctionSpec *)

\* the trial is a tool of the given copy whose handler has adapted its input
Adapted(copy) == trial.kind = "tool" /\ trial.copy = copy /\ trial.stage = "adapted"

\* the input the caller passed, as a record
RawRecord == OrEmptyObject(trial.raw).v

\* the call has exactly one argument, a record
OneRecord(callArgs) == Len(callArgs) = 1 /\ callArgs[1].t = "object"

\* C11: for every tool whose derived schema is the transaction-filter
\* schema, an input with a limit passes validation with the limit unchanged,
\* and the record handed to the external operation has limit 100 when the
\* input's limit is above 100 and the input's limit otherwise.
C11_LimitClampedByAdapter ==
  /\ ( /\ trial.kind = "tool" /\ trial.copy = "tools"
       /\ trial.schema = "TransactionFilter"
       /\ Get(RawRecord, "limit").t = "number" /\ Get(RawRecord, "limit").v > 100 )
     => trial.stage # "rejected"
  /\ ( /\ Adapted("tools")
       /\ trial.schema = "TransactionFilter"
       /\ Get(RawRecord, "limit").t = "number" )
     => /\ Get(trial.args, "limit") = Get(RawRecord, "limit")
        /\ OneRecord(trial.callArgs)
        /\ Get(trial.callArgs[1].v, "limit") =
             IF Get(RawRecord, "limit").v > 100 THEN Num(100) ELSE Get(RawRecord, "limit")

\* C12: for every transaction-filter input with neither startDate nor
\* endDate, the record handed to the external operation has endDate the
\* current date and startDate the date 30 days earlier, as YYYY-MM-DD, and
\* every other field as validation left it (limit 50, offset 0 and
\* verbosity summary when defaulted), the limit capped at 100.
C12_DefaultDateWindow ==
  ( /\ Adapted("tools")
    /\ trial.schema = "TransactionFilter"
    /\ Get(trial.args, "startDate").t = "undefined"
    /\ Get(trial.args, "endDate").t = "undefined" )
  => /\ OneRecord(trial.callArgs)
     /\ Get(trial.callArgs[1].v, "endDate") = Str(ToISODate(trial.now))
     /\ Get(trial.callArgs[1].v, "startDate") = Str(ToISODate(MinusDays(trial.now, 30)))
     /\ \A f \in {"offset", "verbosity", "search"} :
          Get(trial.callArgs[1].v, f) = Get(trial.args, f)
     /\ Get(RawRecord, "limit").t = "undefined" =>
          /\ Get(trial.callArgs[1].v, "limit") = Num(50)
          /\ Get(trial.callArgs[1].v, "offset") = Num(0)
          /\ Get(trial.callArgs[1].v, "verbosity") = Str(<<"summary">>)

\* C13: for every group and every operation name containing "ById", in both
\* copies, the derived schema is one required string field id and nothing
\* else, an input passes validation exactly when its id is a string, and the
\* adapter returns the one-element list of that id.
C13_ByIdSchemaAndArguments ==
  (trial.kind = "tool" /\ Includes(trial.methodName, <<"ById">>) /\ trial.stage # "input")
  => /\ SchemaFields(trial.schema) = << Field("id", "string", TRUE, Undefined) >>
     /\ trial.stage = "rejected" => Get(RawRecord, "id").t # "string"
     /\ trial.stage \in {"validated", "adapted"} =>
          /\ Get(RawRecord, "id").t = "string"
          /\ trial.args = [id |-> Get(RawRecord, "id")]
     /\ trial.stage = "adapted" => trial.callArgs = << Get(RawRecord, "id") >>

\* an updateById tool of each copy called with { id: "abc", limit: 500, data: {} }
C13_Witness ==
  /\ trial.kind = "tool"
  /\ trial.stage = "adapted"
  /\ trial.copy = "createServer"
  /\ trial.moduleName = "accounts"
  /\ trial.methodName = <<"update", "ById">>
  /\ Get(RawRecord, "data").t = "object"
  /\ trial.callArgs = << Str(<<"abc">>) >>

\* the condition of each rule of the deriver, in the order of the spec
RuleHolds(k, moduleName, methodName) ==
  CASE k = 1 -> Includes(methodName, <<"ById">>)
    [] k = 2 -> moduleName = "transactions" /\ methodName = <<"get", "Transaction", "Details">>
    [] k = 3 -> Includes(methodName, <<"Transactions">>)
    [] k = 4 -> Includes(methodName, <<"History">>) \/ Includes(methodName, <<"OverTime">>)
    [] k = 5 -> Includes(methodName, <<"update">>)
    [] k = 6 -> Includes(methodName, <<"create">>)
    [] k = 7 -> moduleName = "accounts" /\ methodName = <<"get", "All">>
    [] k = 8 -> StartsWith(methodName, <<"get">>) \/ Includes(methodName, <<"get", "All">>)
    [] k = 9 -> TRUE

\* the schema of each rule
RuleSchema ==
  << "ById", "TransactionDetail", "TransactionFilter", "DateRange", "Update", "Create",
     "AccountList", "Verbosity", "Empty" >>

\* the rules the name satisfies
RulesOf(moduleName, methodName) == {k \in 1..9 : RuleHolds(k, moduleName, methodName)}

\* C14: generateInputSchema of tools.ts returns the schema of the first rule
\* the name satisfies, never the schema of a later one.
C14_FirstRuleWins ==
  (trial.kind = "tool" /\ trial.copy = "tools" /\ trial.stage # "input")
  => \E k \in RulesOf(trial.moduleName, trial.methodName) :
       /\ \A j \in RulesOf(trial.moduleName, trial.methodName) : k <= j
       /\ trial.schema = RuleSchema[k]

\* a name that satisfies the update, the create and the fallback rule gets
\* the update schema
C14_Witness ==
  /\ trial.kind = "tool"
  /\ trial.copy = "tools"
  /\ trial.stage = "derived"
  /\ trial.methodName = <<"update", "Or", "create">>
  /\ RulesOf(trial.moduleName, trial.methodName) = {5, 6, 9}
  /\ trial.schema = "Update"

\* the trial is a result that the named formatter has formatted
Formatted(formatter) ==
  trial.kind = "format" /\ trial.formatter = formatter /\ trial.stage = "formatted"

\* C15: for every tool key and every raw result that is a string, the empty
\* string included, the formatter returns exactly that string.
C15_StringReturnedVerbatim ==
  (trial.kind = "format" /\ trial.stage = "formatted" /\ trial.given.t = "string")
  => trial.text = trial.given.v

\* the tokens of the model's texts that contain the word "found"
FoundTokens == {" found."}

\* C16: for every tool key and every verbosity, formatting an empty result
\* sequence returns a message that contains the word "found".
C16_EmptyListSaysFound ==
  ( /\ trial.kind = "format" /\ trial.stage = "formatted"
    /\ trial.given.t = "array" /\ trial.given.v = << >> )
  => \E i \in 1..Len(trial.text) : trial.text[i] \in FoundTokens

\* the items of the given list whose name the text shows
Rendered == {j \in 1..Len(trial.given.v) : \E i \in 1..Len(trial.text) : trial.text[i] = ItemName(j)}

\* the text ends its list with "... and N more"
SaysMore(n) ==
  \E i \in 1..(Len(trial.text) - 1) :
    trial.text[i] \in {"\n... and ", "\n\n... and "} /\ trial.text[i + 1] = ToString(n)

\* the renderer formatArrayResult selects for the key, and the claimed cap
\* of its detailed output
DetailedCap(toolName) ==
  IF Includes(toolName, <<"accounts">>) THEN 15
  ELSE IF Includes(toolName, <<"transactions">>) THEN 25
  ELSE IF Includes(toolName, <<"categories">>) THEN 15
  ELSE IF Includes(toolName, <<"budgets">>) THEN 10
  ELSE 0

\* C17: with verbosity detailed, at most 15 accounts or categories, 25
\* transactions and 10 budget lines are rendered individually, whatever the
\* length of the result, and the number of the others is reported in a
\* "... and N more" suffix.
C17_DetailedOutputBounded ==
  ( /\ Formatted("monarch")
    /\ trial.given.t = "array"
    /\ VerbosityOf(trial.args) = <<"detailed">>
    /\ DetailedCap(trial.toolName) # 0 )
  => /\ Cardinality(Rendered) <= DetailedCap(trial.toolName)
     /\ Len(trial.given.v) > DetailedCap(trial.toolName) =>
          SaysMore(Len(trial.given.v) - DetailedCap(trial.toolName))

\* the sort directive formatTransactions sees: "none" when there is none
SortDirective ==
  LET d == Get(SmartArgs(trial.given, trial.args), "_sortByAmount")
  IN  IF d.t = "string" /\ d.v # << >> THEN d.v[1] ELSE "none"

\* the trial formats a list with the transaction renderer
TransactionList ==
  /\ Formatted("monarch")
  /\ trial.given.t = "array"
  /\ trial.given.v # << >>
  /\ DetailedCap(trial.toolName) = 25

\* C18: formatting a transaction list whose input carries a sort directive
\* leaves the caller's list unchanged: the same elements in the same order.
C18_SortLeavesListUnchanged ==
  (TransactionList /\ SortDirective # "none") => trial.result = trial.given

\* the absolute amount of the j-th item of the given list
GivenAmount(j) == Abs(trial.given.v[j].v.amount.v)

\* the line of rank i shows item j
RankedAt(i, j) ==
  Includes(trial.text, <<ToString(i), ". ", "Unknown date", " - **", ItemName(j)>>)

\* a list that is not in descending order was rendered in descending order,
\* and is still in the order the caller gave
C18_Witness ==
  /\ TransactionList
  /\ SortDirective = "desc"
  /\ Len(trial.given.v) = 3
  /\ GivenAmount(1) < GivenAmount(3)
  /\ RankedAt(1, 3)
  /\ RankedAt(3, 1)
  /\ trial.result = trial.given

\* item j may stand at place i of the list in the given order of amounts
PlaceOf(i, j, directive) ==
  LET n == Len(trial.given.v)
      before == IF directive = "desc"
                THEN {x \in 1..n : GivenAmount(x) > GivenAmount(j)}
                ELSE {x \in 1..n : GivenAmount(x) < GivenAmount(j)}
      same == {x \in 1..n : GivenAmount(x) = GivenAmount(j)}
  IN  Cardinality(before) < i /\ i <= Cardinality(before) + Cardinality(same)

\* the display cap of the transaction renderer
DisplayCap == IF VerbosityOf(SmartArgs(trial.given, trial.args)) = <<"detailed">> THEN 25 ELSE 20

\* C19: with the sort directive "desc" (or "asc") the transactions rendered
\* are the first k of the whole list in non-increasing (non-decreasing)
\* order of absolute amount, k the display cap or the length of the list if
\* smaller, and the i-th of them is prefixed with the rank i, not a bullet.
C19_SortedThenTruncated ==
  ( /\ TransactionList
    /\ SortDirective \in {"desc", "asc"}
    /\ VerbosityOf(SmartArgs(trial.given, trial.args)) # <<"brief">> )
  => LET n == Len(trial.given.v)
         k == Min(DisplayCap, n)
     IN  /\ Cardinality(Rendered) = k
         /\ \A i \in 1..k :
              \E j \in 1..n :
                /\ RankedAt(i, j)
                /\ PlaceOf(i, j, SortDirective)
                /\ \A x \in 1..n : RankedAt(i, x) => x = j
         /\ \A t \in 1..Len(trial.text) : trial.text[t] # "* "

\* 26 transactions with the largest last, sorted descending and shown in
\* summary: the 26th is ranked first and the first is not shown
C19_Witness ==
  /\ TransactionList
  /\ SortDirective = "desc"
  /\ DisplayCap = 20
  /\ Len(trial.given.v) = MaxItems
  /\ GivenAmount(MaxItems) > GivenAmount(1)
  /\ RankedAt(1, MaxItems)
  /\ 1 \notin Rendered
  /\ SaysMore(MaxItems - 20)

\* C20: a query that contains "last N" with N <= 100, one merchant keyword
\* and "over $X", and no date or sort phrase, is parsed to exactly limit N,
\* search the merchant's keyword and absAmountRange [X, open].
C20_IndependentExtraction ==
  ( /\ trial.kind = "query" /\ trial.stage = "parsed"
    /\ trial.count \in 0..100
    /\ trial.search # << >>
    /\ trial.over # -1 )
  => trial.parsedArgs = [limit |-> Num(trial.count),
                         search |-> Str(trial.search),
                         absAmountRange |-> Arr(<<Num(trial.over), Undefined>>)]

\* C21: when the amount phrase that matched is "under/below/less than $X"
\* the parser yields absAmountRange with only the upper bound set to X, and
\* when it is "over/above/more than $X" only the lower bound set to X,
\* whatever other words the query contains.
C21_ThresholdDirection ==
  (trial.kind = "query" /\ trial.stage = "parsed")
  => /\ trial.threshold.direction = "under"
        => Get(trial.parsedArgs, "absAmountRange")
             = Arr(<<Undefined, Num(trial.threshold.x)>>)
     /\ trial.threshold.direction = "over"
        => Get(trial.parsedArgs, "absAmountRange")
             = Arr(<<Num(trial.threshold.x), Undefined>>)

\* the member names of an object
NamesOf(obj) ==
  {obj.proto[i].name : i \in 1..Len(obj.proto)} \cup {obj.own[i].name : i \in 1..Len(obj.own)}

PrivateOrConstructor(name) == name = <<"constructor">> \/ name[1] = "_"

AuthenticationOperations == {<<"login">>, <<"interactive", "Login">>}

BuiltNames == {trial.tools[i].name : i \in 1..Len(trial.tools)}

ExposedGroups == {m \in DOMAIN trial.client.mods : \E i \in 1..Len(sdkModules) : sdkModules[i] = m}

\* C22: the catalog built for a client has a tool group_operation for each
\* callable operation of each exposed group and a tool operation for each
\* top-level callable operation, and has no tool for an operation whose name
\* starts with "_", for "constructor", or for login and interactiveLogin.
C22_CatalogCoversCallableOperations ==
  (trial.kind = "catalog" /\ trial.stage = "built")
  => /\ \A m \in ExposedGroups : \A n \in NamesOf(trial.client.mods[m]) :
          IF PrivateOrConstructor(n)
          THEN <<m, "_">> \o n \notin BuiltNames
          ELSE IsFunction(trial.client.mods[m], n) => <<m, "_">> \o n \in BuiltNames
     /\ \A n \in NamesOf(trial.client) :
          IF PrivateOrConstructor(n) \/ n \in AuthenticationOperations
          THEN n \notin BuiltNames
          ELSE IsFunction(trial.client, n) => n \in BuiltNames

\* a catalog built by tools.ts for a client with grouped and top-level
\* operations, private members, a shadowed operation and both
\* authentication operations
C22_Witness ==
  /\ trial.kind = "catalog" /\ trial.stage = "built"
  /\ trial.builder = "tools"
  /\ trial.client = ClientShadowed
  /\ <<"insights", "_", "get", "Insights">> \in BuiltNames
  /\ <<"refresh">> \in BuiltNames
  /\ <<"logout">> \notin BuiltNames
  /\ <<"accounts", "_", "get", "All">> \notin BuiltNames

\* the categories of a login failure, with the substrings that name them
FailureCategories ==
  [forbidden |-> {"forbidden"}, unauthorized |-> {"401"}, rateLimited |-> {"429"},
   mfa |-> {"mfa", "totp"}, network |-> {"network", "timeout"}]

CategoryHint ==
  [forbidden |-> ForbiddenHint, unauthorized |-> UnauthorizedHint,
   rateLimited |-> RateLimitedHint, mfa |-> MfaHint, network |-> NetworkHint]

\* the categories the message matches, whatever its case
CategoriesOf(message) ==
  {c \in DOMAIN FailureCategories :
     \E w \in FailureCategories[c] : Includes(ToLowerCase(message), <<w>>)}

\* the generic messages that carry the original text
GenericPrefixes == {LoginFailedPrefix, AuthenticationFailedPrefix}

\* C25: a login failure message is classified, case-insensitively and by
\* substring, into one of forbidden, unauthorized, rate-limited, MFA-required
\* and network/timeout, each with its own hint; a message that matches none
\* gives the generic login-failed message carrying the original text.
C25_LoginFailureClassified ==
  (trial.kind = "login" /\ trial.stage = "classified")
  => /\ Cardinality({CategoryHint[c] : c \in DOMAIN CategoryHint}) = 5
     /\ IF CategoriesOf(trial.message) = {}
        THEN /\ \E p \in GenericPrefixes : StartsWith(trial.error.message, <<p>>)
             /\ Includes(trial.error.message, trial.message)
             /\ trial.error.message \notin LoginHints
        ELSE IF trial.copy = "index"
        THEN \E c \in CategoriesOf(trial.message) : trial.error.message = CategoryHint[c]
        ELSE trial.error.message # <<AuthenticationFailedPrefix>> \o trial.message

\* C26: adaptArguments does not modify the validated input: after the
\* adaptation of a transaction-filter input, the record passed to the
\* formatter is the validated record, with the caller's limit and with no
\* start or end date the caller did not give.
C26_AdapterLeavesInputUnchanged ==
  (trial.kind = "tool" /\ trial.stage = "responded" /\ trial.schema = "TransactionFilter")
  => /\ trial.formatterArgs = SchemaParse(trial.schema, OrEmptyObject(trial.raw)).value
     /\ Get(RawRecord, "limit").t = "number"
        => Get(trial.formatterArgs, "limit") = Get(RawRecord, "limit")
     /\ \A f \in {"startDate", "endDate"} :
          Get(trial.formatterArgs, f) = Get(RawRecord, f)

\* a transaction-filter input with limit 500 and no dates: the external call
\* gets limit 100 and a date window, the formatter the input as it was
C26_Witness ==
  /\ trial.kind = "tool" /\ trial.stage = "responded"
  /\ trial.schema = "TransactionFilter"
  /\ RawRecord = [limit |-> Num(500)]
  /\ OneRecord(trial.callArgs)
  /\ Get(trial.callArgs[1].v, "limit") = Num(100)
  /\ Get(trial.callArgs[1].v, "startDate").t = "string"
  /\ Get(trial.formatterArgs, "limit") = Num(500)
  /\ Get(trial.formatterArgs, "startDate") = Undefined

\* the renderer formatArrayResult selects for the key, and the claimed cap
\* of its summary output
SummaryCap(toolName) ==
  IF Includes(toolName, <<"accounts">>) THEN 15
  ELSE IF Includes(toolName, <<"transactions">>) THEN 20
  ELSE IF Includes(toolName, <<"categories">>) THEN 15
  ELSE IF Includes(toolName, <<"budgets">>) THEN 10
  ELSE 0

\* the text before the item count of a header
HeaderOpenings ==
  { "[bank] **Accounts** (", "[card] **Transaction Summary** (",
    "[label] **Categories** (", "[money] **Budget Summary** (" }

EndsWith(s, p) == Len(p) <= Len(s) /\ SubSeq(s, Len(s) - Len(p) + 1, Len(s)) = p

\* the sums over every item of the given list
GivenBalance == SumOf([j \in 1..Len(trial.given.v) |-> trial.given.v[j].v.currentBalance.v])

GivenVolume == SumOf([j \in 1..Len(trial.given.v) |-> Abs(trial.given.v[j].v.amount.v)])

\* C27: with verbosity summary, a list of n items and the cap c of its
\* renderer (15 accounts, 15 categories, 20 transactions, 10 budgets):
\* min(n, c) items are rendered, "... and N more" appears exactly when
\* n > c, with N = n - c, and the header count and the aggregate total are
\* those of all n items.
C27_SummaryTruncation ==
  ( /\ Formatted("monarch")
    /\ trial.given.t = "array"
    /\ trial.given.v # << >>
    /\ VerbosityOf(trial.args) = <<"summary">>
    /\ SummaryCap(trial.toolName) # 0 )
  => LET n == Len(trial.given.v)
         c == SummaryCap(trial.toolName)
     IN  /\ Cardinality(Rendered) = Min(n, c)
         /\ (\E m \in 0..n : SaysMore(m)) <=> n > c
         /\ n > c => SaysMore(n - c)
         /\ trial.text[1] \in HeaderOpenings /\ trial.text[2] = ToString(n)
         /\ Includes(trial.toolName, <<"accounts">>)
            => EndsWith(trial.text, <<"\n\n**Total Balance: $">> \o LocaleString(GivenBalance)
                                    \o <<"**">>)
         /\ (~Includes(trial.toolName, <<"accounts">>) /\ c = 20)
            => EndsWith(trial.text, <<"\n\n**Total Transaction Volume: $">>
                                    \o LocaleString(GivenVolume) \o <<"**">>)

\* a summary of more accounts than the cap: fifteen lines, the number of the
\* others, and the balance of all of them
C27_Witness ==
  /\ Formatted("monarch")
  /\ trial.given.t = "array"
  /\ Len(trial.given.v) = 16
  /\ trial.toolName = <<"accounts", "_", "get", "All">>
  /\ VerbosityOf(trial.args) = <<"summary">>
  /\ Cardinality(Rendered) = 15
  /\ SaysMore(1)
  /\ GivenBalance = 13600

\* C28: the limit the natural-language smart-query handler sends to the
\* transaction fetch is an integer between 1 and 100: the extracted count
\* when one between 1 and 100 was extracted, and 25 otherwise, a count of 0
\* or above 100 included.
C28_SentLimitInRange ==
  (trial.kind = "query" /\ trial.stage = "sent")
  => LET sent == Get(trial.transactionArgs, "limit")
         extracted == Get(trial.parsedArgs, "limit")
     IN  /\ sent.t = "number" /\ sent.v \in 1..100
         /\ sent = IF extracted.t = "number" /\ extracted.v \in 1..100
                   THEN extracted ELSE Num(25)
         /\ trial.order = <<1>>
            => sent = IF trial.count \in 1..100 THEN Num(trial.count) ELSE Num(25)

\* a query whose count is 0 (extracted) or 250 (not extracted) has been sent
\* with the limit 25
C28_Witness ==
  /\ trial.kind = "query" /\ trial.stage = "sent"
  /\ trial.order = <<1>>
  /\ \/ trial.count = 0 /\ Get(trial.parsedArgs, "limit") = Num(0)
        /\ Get(trial.transactionArgs, "limit") = Num(25)
     \/ trial.count = 250 /\ Get(trial.parsedArgs, "limit") = Undefined
        /\ Get(trial.transactionArgs, "limit") = Num(25)

\* the names of the fields a schema declares
DeclaredFields(kind) == {SchemaFields(kind)[i].name : i \in 1..Len(SchemaFields(kind))}

\* C29: the deriver and the adapter classify an operation the same way: an
\* operation with the update schema is called with (id, data), one with the
\* create schema with (data), one with the ById schema with (id), one with
\* the transaction-filter schema with the clamped and date-filled record, and
\* no argument of a call is taken from a field the schema does not declare.
C29_DeriverAndAdapterAgree ==
  (trial.kind = "tool" /\ trial.stage = "adapted")
  => /\ trial.schema = "Update"
        => trial.callArgs = << Get(trial.args, "id"), Get(trial.args, "data") >>
     /\ trial.schema = "Create" => trial.callArgs = << Get(trial.args, "data") >>
     /\ trial.schema = "ById" => trial.callArgs = << Get(trial.args, "id") >>
     /\ trial.schema = "TransactionFilter"
        => /\ OneRecord(trial.callArgs)
           /\ Get(trial.callArgs[1].v, "limit") =
                IF Get(trial.args, "limit").v > 100 THEN Num(100) ELSE Get(trial.args, "limit")
           /\ \/ Truthy(Get(trial.callArgs[1].v, "startDate"))
              \/ Truthy(Get(trial.callArgs[1].v, "endDate"))
     /\ \A k \in 1..Len(trial.callArgs) :
          /\ trial.callArgs[k].t # "undefined"
          /\ (trial.callArgs[k].t = "object" /\ trial.callArgs[k] # Get(trial.args, "data"))
             => DOMAIN trial.callArgs[k].v \subseteq DeclaredFields(trial.schema)

-----------------------------------------------------------------------------
(* Properties of the server, under Spec *)

\* the call the smart-query tool is to make for the query q
SmartQueryCall(q) ==
  IF Callable(client, "transactions", <<"smart", "Query">>)
  THEN Call("transactions", <<"smart", "Query">>, <<q>>)
  ELSE Call("transactions", <<"get", "Transactions">>,
            << Obj([search |-> q, limit |-> Num(25)]) >>)

\* the "transactions" field of the response when it has one, else the response
Unwrapped(response) ==
  IF Prop(response, "transactions").t \in {"undefined", "null"}
  THEN response ELSE Prop(response, "transactions")

\* C23: when the client has a transactions group, an invocation of the
\* catalog's transactions_smartQuery tool requires a string query q, calls
\* the native smart-query operation with q if the client has one and the
\* transaction fetch with search = q and limit = 25 otherwise, and formats
\* the "transactions" field of the response when there is one.
C23_SmartQueryPassesQuery ==
  \A h \in Handlers :
    (inv[h].name = SmartQueryName /\ HasModule(client, "transactions"))
    => /\ Prop(inv[h].raw, "query").t # "string"
          => inv[h].pc = "failed" /\ inv[h].calls = << >>
       /\ inv[h].calls # << >>
          => inv[h].calls = << SmartQueryCall(Prop(inv[h].raw, "query")) >>
       /\ inv[h].pc = "done"
          => inv[h].content \in
               { formatMonarchResult(SmartQueryName, Unwrapped(inv[h].results[1]), inv[h].args),
                 formatResult(SmartQueryName, Unwrapped(inv[h].results[1]), inv[h].args) }

QuickStatsName == SummaryToolNames[4]

\* the two fetches of the quick-stats tool
QuickStatsCalls ==
  << Call("accounts", <<"get", "All">>, << >>),
     Call("transactions", <<"get", "Transactions">>, << Obj([limit |-> Num(100)]) >>) >>

\* the text of the quick-stats tool for the responses of the two fetches
QuickStatsExpected ==
  QuickStatsText(MockResult(QuickStatsCalls[1]), MockResult(QuickStatsCalls[2]), Today).text

\* C24: the quick-stats tool starts its account fetch and its transaction
\* fetch in one step, its text is the same whichever fetch completes last,
\* and the invocation fails as soon as one of the fetches fails.
C24_QuickStatsOrderIndependent ==
  [][\A h \in Handlers :
       inv'[h].name = QuickStatsName
       => /\ (inv[h].calls = << >> /\ inv'[h].calls # << >>)
             => inv'[h].calls = QuickStatsCalls /\ inv'[h].pending = {1, 2}
          /\ (inv[h].pc = "call" /\ inv'[h].pending # inv[h].pending /\ inv'[h].rejection = << >>)
             => IF Cardinality(inv[h].pending) = 2
                THEN inv'[h].pc = "call"
                ELSE inv'[h].pc = "done" /\ inv'[h].content = QuickStatsExpected
          /\ (inv[h].pc = "call" /\ inv'[h].rejection # << >>)
             => inv'[h].pc = "failed" /\ inv'[h].content = << >>]_vars

\* one quick-stats invocation is done with its text, while in another the
\* transaction fetch has completed before the account fetch
C24_Witness ==
  \E h, g \in Handlers :
    /\ inv[h].name = QuickStatsName /\ inv[h].pc = "done"
    /\ inv[h].content = QuickStatsExpected
    /\ inv[g].name = QuickStatsName /\ inv[g].pc = "call" /\ inv[g].pending = {1}

\* the handler has called a data operation of the client
HasCalled(h) == inv[h].calls # << >>

\* C30: a data operation of the client is invoked only by a handler whose
\* ensureAuthenticated call has returned, so none is invoked while the
\* authenticated flag is false, and the flag, once true, stays true.
C30_DataOperationsBehindGate ==
  /\ [](\A h \in Handlers :
          HasCalled(h) => /\ inv[h].gate /\ inv[h].authed
                          /\ inv[h].login \in {"none", "ok"}
                          /\ isAuthenticated)
  /\ [][isAuthenticated => isAuthenticated']_vars

\* two invocations raced into the gate: the login of one succeeded and it
\* has called its operation, the login of the other failed afterwards
C30_Witness ==
  \E h, g \in Handlers :
    /\ HasCalled(h) /\ inv[h].login = "ok"
    /\ inv[g].login = "failed" /\ inv[g].attempt > inv[h].attempt
    /\ isAuthenticated

====
